---- MODULE Spec2Model ----
(***************************************************************************)
(* A model of the idle-game core of the extension: GameStateManager        *)
(* (state store, progression, combat, persistence and save migration) as   *)
(* it is driven by the one-second game loop and by the editor listener.    *)
(*                                                                         *)
(* Numbers.  linesOfCode and totalLinesGenerated are the only fractional   *)
(* quantities of the program: every fractional increment is a multiple of  *)
(* 0.1 (handSpeed * (1 + level * 0.1), 1 * (1 + level * 0.2)).  The model  *)
(* holds both in tenths (Scale = 10), with exact arithmetic; every other   *)
(* quantity is an integer, and Math.floor(x * 1.5), Math.floor(x * 0.2)    *)
(* and Math.floor(x * 0.1) of integers are integer divisions.              *)
(*                                                                         *)
(* Randomness.  Each Math.random() call is a draw, in hundredths, from     *)
(* RandomDraws: both ends of [0, 1), both sides of the 0.1 threshold and   *)
(* a value in the middle.                                                  *)
(***************************************************************************)
EXTENDS Integers, Sequences, FiniteSets, TLC

VARIABLES gameState,   \* GameStateManager.gameState
          persisted,   \* context.globalState under saveKey
          lastOp,      \* the entry point that ran last, its argument and result
          snapshot,    \* the object a getGameState call returned to a consumer
          gameLoop,    \* the interval timer of the game loop (extension.ts)
          frame        \* the callback the extension host is running, if any

hostVars == <<gameLoop, frame>>
vars == <<gameState, persisted, lastOp, snapshot, gameLoop, frame>>

----------------------------------------------------------------------------
(* Values *)

Scale == 10

\* null (battle.currentBug) and the absence of a persisted blob
Null == [null |-> TRUE]
Absent == [absent |-> TRUE]

\* no getGameState call has returned yet
NoSnapshot == [taken |-> FALSE]

\* no callback is running: the extension host has no frame of the extension
NoFrame == <<>>

Max(a, b) == IF a >= b THEN a ELSE b

UpgradeTypes == {"handSpeed", "algorithm", "iteration"}

bugTypes == <<"NullPointerException", "MemoryLeak", "InfiniteLoop",
              "SyntaxError", "RuntimeError">>

\* Math.random() in hundredths
RandomDraws == {0, 9, 10, 55, 99}

\* Math.random() < 0.1, in hundredths
SpawnChance == 10
KeystrokeChance == 10

----------------------------------------------------------------------------
(* GameStateManager *)

\* mutant: the costs of handSpeed and algorithm are exchanged
createDefaultGameState_CostsExchanged ==
    [ character    |-> [ name |-> "hero", level |-> 1, experience |-> 0,
                         experienceToNext |-> 100 ],
      resources    |-> [ linesOfCode |-> 0, bugFragments |-> 0 ],
      stats        |-> [ handSpeed |-> 1, algorithm |-> 5, iteration |-> 3 ],
      upgradeCosts |-> [ handSpeed |-> 30, algorithm |-> 50, iteration |-> 40 ],
      equipment    |-> [ keyboard      |-> [ level |-> 1, owned |-> FALSE ],
                         ideExtension  |-> [ level |-> 1, owned |-> FALSE ],
                         debugger      |-> [ level |-> 1, owned |-> FALSE ],
                         coffeeMachine |-> [ level |-> 1, owned |-> FALSE ] ],
      statistics   |-> [ totalLinesGenerated |-> 0, totalBugsDefeated |-> 0,
                         totalPlayTime |-> 0, keystrokes |-> 0,
                         filesOpened |-> 0, filesSaved |-> 0 ],
      battle       |-> [ currentBug |-> Null, isInBattle |-> FALSE ],
      settings     |-> [ autoSave |-> TRUE, showNotifications |-> TRUE ] ]

\* mutant: the default state has autoSave off
createDefaultGameState_AutoSaveOff ==
    [ character    |-> [ name |-> "hero", level |-> 1, experience |-> 0,
                         experienceToNext |-> 100 ],
      resources    |-> [ linesOfCode |-> 0, bugFragments |-> 0 ],
      stats        |-> [ handSpeed |-> 1, algorithm |-> 5, iteration |-> 3 ],
      upgradeCosts |-> [ handSpeed |-> 50, algorithm |-> 30, iteration |-> 40 ],
      equipment    |-> [ keyboard      |-> [ level |-> 1, owned |-> FALSE ],
                         ideExtension  |-> [ level |-> 1, owned |-> FALSE ],
                         debugger      |-> [ level |-> 1, owned |-> FALSE ],
                         coffeeMachine |-> [ level |-> 1, owned |-> FALSE ] ],
      statistics   |-> [ totalLinesGenerated |-> 0, totalBugsDefeated |-> 0,
                         totalPlayTime |-> 0, keystrokes |-> 0,
                         filesOpened |-> 0, filesSaved |-> 0 ],
      battle       |-> [ currentBug |-> Null, isInBattle |-> FALSE ],
      settings     |-> [ autoSave |-> FALSE, showNotifications |-> TRUE ] ]

\* mutant: the default state owns the IDE extension
createDefaultGameState_IdeOwned ==
    [ character    |-> [ name |-> "hero", level |-> 1, experience |-> 0,
                         experienceToNext |-> 100 ],
      resources    |-> [ linesOfCode |-> 0, bugFragments |-> 0 ],
      stats        |-> [ handSpeed |-> 1, algorithm |-> 5, iteration |-> 3 ],
      upgradeCosts |-> [ handSpeed |-> 50, algorithm |-> 30, iteration |-> 40 ],
      equipment    |-> [ keyboard      |-> [ level |-> 1, owned |-> FALSE ],
                         ideExtension  |-> [ level |-> 1, owned |-> TRUE ],
                         debugger      |-> [ level |-> 1, owned |-> FALSE ],
                         coffeeMachine |-> [ level |-> 1, owned |-> FALSE ] ],
      statistics   |-> [ totalLinesGenerated |-> 0, totalBugsDefeated |-> 0,
                         totalPlayTime |-> 0, keystrokes |-> 0,
                         filesOpened |-> 0, filesSaved |-> 0 ],
      battle       |-> [ currentBug |-> Null, isInBattle |-> FALSE ],
      settings     |-> [ autoSave |-> TRUE, showNotifications |-> TRUE ] ]

createDefaultGameState ==
    [ character    |-> [ name |-> "hero", level |-> 1, experience |-> 0,
                         experienceToNext |-> 100 ],
      resources    |-> [ linesOfCode |-> 0, bugFragments |-> 0 ],
      stats        |-> [ handSpeed |-> 1, algorithm |-> 5, iteration |-> 3 ],
      upgradeCosts |-> [ handSpeed |-> 50, algorithm |-> 30, iteration |-> 40 ],
      equipment    |-> [ keyboard      |-> [ level |-> 1, owned |-> FALSE ],
                         ideExtension  |-> [ level |-> 1, owned |-> FALSE ],
                         debugger      |-> [ level |-> 1, owned |-> FALSE ],
                         coffeeMachine |-> [ level |-> 1, owned |-> FALSE ] ],
      statistics   |-> [ totalLinesGenerated |-> 0, totalBugsDefeated |-> 0,
                         totalPlayTime |-> 0, keystrokes |-> 0,
                         filesOpened |-> 0, filesSaved |-> 0 ],
      battle       |-> [ currentBug |-> Null, isInBattle |-> FALSE ],
      settings     |-> [ autoSave |-> TRUE, showNotifications |-> TRUE ] ]

\* mutant: the equipment bonus is left out
calculateLocPerSecond_NoBonus(gs) == gs.stats.handSpeed * Scale

\* in tenths: handSpeed, times (1 + level * 0.1) when the IDE extension is owned
calculateLocPerSecond(gs) ==
    LET baseRate == gs.stats.handSpeed * Scale
    IN  IF gs.equipment.ideExtension.owned
          THEN gs.stats.handSpeed * (Scale + gs.equipment.ideExtension.level)
          ELSE baseRate

calculateFragmentsPerBug(gs, baseBugFragments) ==
    LET fragmentBonus == (baseBugFragments * gs.stats.iteration) \div 10
    IN  baseBugFragments + fragmentBonus

\* mutant: the fragments are granted without the bonus of iteration
defeatBug_NoFragmentBonus(gs, bug) ==
    [gs EXCEPT !.resources.linesOfCode = @ + bug.reward.linesOfCode * Scale,
               !.resources.bugFragments = @ + bug.reward.bugFragments,
               !.character.experience = @ + bug.reward.experience,
               !.statistics.totalBugsDefeated = @ + 1,
               !.battle.currentBug = Null,
               !.battle.isInBattle = FALSE]

\* mutant: the rewards are granted but the battle slot is not cleared
defeatBug_KeepsSlot(gs, bug) ==
    LET fragmentBonus  == (bug.reward.bugFragments * gs.stats.iteration) \div 10
        totalFragments == bug.reward.bugFragments + fragmentBonus
    IN  [gs EXCEPT !.resources.linesOfCode = @ + bug.reward.linesOfCode * Scale,
                   !.resources.bugFragments = @ + totalFragments,
                   !.character.experience = @ + bug.reward.experience,
                   !.statistics.totalBugsDefeated = @ + 1]

defeatBug(gs, bug) ==
    LET fragmentBonus  == (bug.reward.bugFragments * gs.stats.iteration) \div 10
        totalFragments == bug.reward.bugFragments + fragmentBonus
    IN  [gs EXCEPT !.resources.linesOfCode = @ + bug.reward.linesOfCode * Scale,
                   !.resources.bugFragments = @ + totalFragments,
                   !.character.experience = @ + bug.reward.experience,
                   !.statistics.totalBugsDefeated = @ + 1,
                   !.battle.currentBug = Null,
                   !.battle.isInBattle = FALSE]

\* mutant: the encounter's iteration is not subtracted from the damage
processBattle_NoDefense(gs) ==
    IF ~gs.battle.isInBattle \/ gs.battle.currentBug = Null
      THEN gs
      ELSE LET damage == Max(1, gs.stats.algorithm)
               hit    == [gs EXCEPT !.battle.currentBug.health = @ - damage]
           IN  IF hit.battle.currentBug.health <= 0
                 THEN defeatBug(hit, hit.battle.currentBug)
                 ELSE hit

\* mutant: the damage is the player's algorithm less the encounter's
\* algorithm, not less its iteration
processBattle_ComparesAlgorithms(gs) ==
    IF ~gs.battle.isInBattle \/ gs.battle.currentBug = Null
      THEN gs
      ELSE LET bug    == gs.battle.currentBug
               damage == Max(0, gs.stats.algorithm - bug.algorithm)
               hit    == [gs EXCEPT !.battle.currentBug.health = @ - damage]
           IN  IF hit.battle.currentBug.health <= 0
                 THEN defeatBug(hit, hit.battle.currentBug)
                 ELSE hit

processBattle(gs) ==
    IF ~gs.battle.isInBattle \/ gs.battle.currentBug = Null
      THEN gs
      ELSE LET bug    == gs.battle.currentBug
               damage == Max(1, gs.stats.algorithm - bug.iteration)
               hit    == [gs EXCEPT !.battle.currentBug.health = @ - damage]
           IN  IF hit.battle.currentBug.health <= 0
                 THEN defeatBug(hit, hit.battle.currentBug)
                 ELSE hit

\* mutant: the reward base is the level, not half of it
createBug_RewardNotHalved(gs, type) ==
    LET baseHealth    == 10 + gs.character.level * 5
        baseAlgorithm == 5 + gs.character.level * 2
        baseReward    == Max(1, gs.character.level)
    IN  [ name      |-> type,
          type      |-> type,
          health    |-> baseHealth,
          maxHealth |-> baseHealth,
          algorithm |-> baseAlgorithm,
          iteration |-> (baseAlgorithm * 2) \div 10,
          reward    |-> [ linesOfCode  |-> baseReward * 10,
                          bugFragments |-> baseReward,
                          experience   |-> baseReward * 5 ] ]

createBug(gs, type) ==
    LET baseHealth    == 10 + gs.character.level * 5
        baseAlgorithm == 5 + gs.character.level * 2
        baseReward    == Max(1, gs.character.level \div 2)
    IN  [ name      |-> type,
          type      |-> type,
          health    |-> baseHealth,
          maxHealth |-> baseHealth,
          algorithm |-> baseAlgorithm,
          iteration |-> (baseAlgorithm * 2) \div 10,
          reward    |-> [ linesOfCode  |-> baseReward * 10,
                          bugFragments |-> baseReward,
                          experience   |-> baseReward * 5 ] ]

\* mutant: the bug is put into the slot and isInBattle is left as it is
spawnRandomBug_SlotOnly(gs, r) ==
    LET randomType == bugTypes[((r * Len(bugTypes)) \div 100) + 1]
    IN  [gs EXCEPT !.battle.currentBug = createBug(gs, randomType)]

\* r: the Math.random() draw that picks the type
spawnRandomBug(gs, r) ==
    LET randomType == bugTypes[((r * Len(bugTypes)) \div 100) + 1]
    IN  [gs EXCEPT !.battle.currentBug = createBug(gs, randomType),
                   !.battle.isInBattle = TRUE]

\* mutant: the threshold is computed for the level before the increment
calculateExperienceForNextLevel_Stale(gs) ==
    100 + (gs.character.level - 2) * 50

\* mutant: the level is not reduced by one
calculateExperienceForNextLevel_FromZero(gs) ==
    100 + gs.character.level * 50

calculateExperienceForNextLevel(gs) ==
    100 + (gs.character.level - 1) * 50

\* mutant: an if in place of the while
checkLevelUp_Once(gs) ==
    IF gs.character.experience >= gs.character.experienceToNext
      THEN LET s1 == [gs EXCEPT !.character.experience =
                                     @ - gs.character.experienceToNext,
                                !.character.level = @ + 1]
           IN  [s1 EXCEPT !.character.experienceToNext =
                               calculateExperienceForNextLevel(s1),
                          !.stats.handSpeed = @ + 1,
                          !.stats.algorithm = @ + 2,
                          !.stats.iteration = @ + 1]
      ELSE gs

\* mutant: a level-up sets the experience to 0
RECURSIVE checkLevelUp_DropsOverflow(_)
checkLevelUp_DropsOverflow(gs) ==
    IF gs.character.experience >= gs.character.experienceToNext
      THEN LET s1 == [gs EXCEPT !.character.experience = 0,
                                !.character.level = @ + 1]
               s2 == [s1 EXCEPT !.character.experienceToNext =
                                     calculateExperienceForNextLevel(s1),
                                !.stats.handSpeed = @ + 1,
                                !.stats.algorithm = @ + 2,
                                !.stats.iteration = @ + 1]
           IN  checkLevelUp_DropsOverflow(s2)
      ELSE gs

RECURSIVE checkLevelUp(_)
checkLevelUp(gs) ==
    IF gs.character.experience >= gs.character.experienceToNext
      THEN LET s1 == [gs EXCEPT !.character.experience =
                                     @ - gs.character.experienceToNext,
                                !.character.level = @ + 1]
               s2 == [s1 EXCEPT !.character.experienceToNext =
                                     calculateExperienceForNextLevel(s1),
                                !.stats.handSpeed = @ + 1,
                                !.stats.algorithm = @ + 2,
                                !.stats.iteration = @ + 1]
           IN  checkLevelUp(s2)
      ELSE gs

\* accrual and play time (the first statements of updateGameState)
accrue(gs) ==
    LET locPerSecond == calculateLocPerSecond(gs)
    IN  [gs EXCEPT !.resources.linesOfCode = @ + locPerSecond,
                   !.statistics.totalLinesGenerated = @ + locPerSecond,
                   !.statistics.totalPlayTime = @ + 1]

\* mutant: the spawn check does not look at the battle slot
spawnCheck_NoBattleGuard(gs, r1) == r1 < SpawnChance

\* whether the tick's spawn check draws and spawns, given the state after combat
spawnCheck(gs, r1) ==
    ~gs.battle.isInBattle /\ r1 < SpawnChance

\* mutant: the spawn check comes before combat
updateGameState_SpawnsBeforeBattle(gs, r1, r2) ==
    LET s1 == accrue(gs)
        s2 == IF spawnCheck(s1, r1) THEN spawnRandomBug(s1, r2) ELSE s1
        s3 == processBattle(s2)
    IN  checkLevelUp(s3)

\* mutant: the tick does not call checkLevelUp
updateGameState_NoLevelUp(gs, r1, r2) ==
    LET s1 == accrue(gs)
        s2 == processBattle(s1)
    IN  IF spawnCheck(s2, r1) THEN spawnRandomBug(s2, r2) ELSE s2

\* the in-memory part of updateGameState; r1 is the spawn draw, r2 the type draw
updateGameState(gs, r1, r2) ==
    LET s1 == accrue(gs)
        s2 == processBattle(s1)
        s3 == IF spawnCheck(s2, r1) THEN spawnRandomBug(s2, r2) ELSE s2
    IN  checkLevelUp(s3)

\* mutant: a purchase costs a fragment as well
buyUpgrade_SpendsFragment(gs, upgradeType) ==
    LET cost == gs.upgradeCosts[upgradeType]
    IN  IF gs.resources.linesOfCode >= cost * Scale
          THEN [ state |-> [gs EXCEPT
                     !.resources.linesOfCode = @ - cost * Scale,
                     !.resources.bugFragments = @ - 1,
                     !.stats[upgradeType] =
                         @ + (IF upgradeType = "handSpeed" THEN 1 ELSE 2),
                     !.upgradeCosts[upgradeType] = (cost * 3) \div 2],
                 ret |-> TRUE ]
          ELSE [ state |-> gs, ret |-> FALSE ]

\* mutant: a purchase is taken from the lifetime total as well
buyUpgrade_DebitsLifetimeTotal(gs, upgradeType) ==
    LET cost == gs.upgradeCosts[upgradeType]
    IN  IF gs.resources.linesOfCode >= cost * Scale
          THEN [ state |-> [gs EXCEPT
                     !.resources.linesOfCode = @ - cost * Scale,
                     !.statistics.totalLinesGenerated = @ - cost * Scale,
                     !.stats[upgradeType] =
                         @ + (IF upgradeType = "handSpeed" THEN 1 ELSE 2),
                     !.upgradeCosts[upgradeType] = (cost * 3) \div 2],
                 ret |-> TRUE ]
          ELSE [ state |-> gs, ret |-> FALSE ]

\* mutant: the funds are not compared with the cost
buyUpgrade_NoFundsCheck(gs, upgradeType) ==
    LET cost == gs.upgradeCosts[upgradeType]
    IN  [ state |-> [gs EXCEPT
              !.resources.linesOfCode = @ - cost * Scale,
              !.stats[upgradeType] =
                  @ + (IF upgradeType = "handSpeed" THEN 1 ELSE 2),
              !.upgradeCosts[upgradeType] = (cost * 3) \div 2],
          ret |-> TRUE ]

\* mutant: every stat is raised by 2
buyUpgrade_AlwaysPlusTwo(gs, upgradeType) ==
    LET cost == gs.upgradeCosts[upgradeType]
    IN  IF gs.resources.linesOfCode >= cost * Scale
          THEN [ state |-> [gs EXCEPT
                     !.resources.linesOfCode = @ - cost * Scale,
                     !.stats[upgradeType] = @ + 2,
                     !.upgradeCosts[upgradeType] = (cost * 3) \div 2],
                 ret |-> TRUE ]
          ELSE [ state |-> gs, ret |-> FALSE ]

\* mutant: the new cost is rounded up
buyUpgrade_RoundsUp(gs, upgradeType) ==
    LET cost == gs.upgradeCosts[upgradeType]
    IN  IF gs.resources.linesOfCode >= cost * Scale
          THEN [ state |-> [gs EXCEPT
                     !.resources.linesOfCode = @ - cost * Scale,
                     !.stats[upgradeType] =
                         @ + (IF upgradeType = "handSpeed" THEN 1 ELSE 2),
                     !.upgradeCosts[upgradeType] = (cost * 3 + 1) \div 2],
                 ret |-> TRUE ]
          ELSE [ state |-> gs, ret |-> FALSE ]

\* mutant: the cost is debited before the funds are compared
buyUpgrade_DebitsFirst(gs, upgradeType) ==
    LET cost  == gs.upgradeCosts[upgradeType]
        paid  == [gs EXCEPT !.resources.linesOfCode = @ - cost * Scale]
    IN  IF paid.resources.linesOfCode >= 0
          THEN [ state |-> [paid EXCEPT
                     !.stats[upgradeType] =
                         @ + (IF upgradeType = "handSpeed" THEN 1 ELSE 2),
                     !.upgradeCosts[upgradeType] = (cost * 3) \div 2],
                 ret |-> TRUE ]
          ELSE [ state |-> paid, ret |-> FALSE ]

\* the state after the call and the value returned
buyUpgrade(gs, upgradeType) ==
    LET cost == gs.upgradeCosts[upgradeType]
    IN  IF gs.resources.linesOfCode >= cost * Scale
          THEN [ state |-> [gs EXCEPT
                     !.resources.linesOfCode = @ - cost * Scale,
                     !.stats[upgradeType] =
                         @ + (IF upgradeType = "handSpeed" THEN 1 ELSE 2),
                     !.upgradeCosts[upgradeType] = (cost * 3) \div 2],
                 ret |-> TRUE ]
          ELSE [ state |-> gs, ret |-> FALSE ]

\* mutant: a file save checks for a level-up after granting its experience
onEditorInteraction_LevelsUp(gs, type, r) ==
    CASE type = "keystroke" ->
           LET counted == [gs EXCEPT !.statistics.keystrokes = @ + 1]
               bonus   == IF gs.equipment.keyboard.owned
                            THEN Scale + gs.equipment.keyboard.level * 2
                            ELSE Scale
           IN  IF r < KeystrokeChance
                 THEN [counted EXCEPT !.resources.linesOfCode = @ + bonus]
                 ELSE counted
      [] type = "fileOpen" ->
           [gs EXCEPT !.statistics.filesOpened = @ + 1]
      [] type = "fileSave" ->
           LET saveBonus == 5 + ((r * 10) \div 100)
           IN  checkLevelUp(
                 [gs EXCEPT !.statistics.filesSaved = @ + 1,
                            !.resources.linesOfCode = @ + saveBonus * Scale,
                            !.character.experience = @ + 2])

\* mutant: the keyboard multiplies the bonus whether it is owned or not
onEditorInteraction_KeyboardNotOwned(gs, type, r) ==
    CASE type = "keystroke" ->
           LET counted == [gs EXCEPT !.statistics.keystrokes = @ + 1]
               bonus   == Scale + gs.equipment.keyboard.level * 2
           IN  IF r < KeystrokeChance
                 THEN [counted EXCEPT !.resources.linesOfCode = @ + bonus]
                 ELSE counted
      [] type = "fileOpen" ->
           [gs EXCEPT !.statistics.filesOpened = @ + 1]
      [] type = "fileSave" ->
           LET saveBonus == 5 + ((r * 10) \div 100)
           IN  [gs EXCEPT !.statistics.filesSaved = @ + 1,
                          !.resources.linesOfCode = @ + saveBonus * Scale,
                          !.character.experience = @ + 2]

\* mutant: the save bonus is drawn from eleven values
onEditorInteraction_ElevenBonuses(gs, type, r) ==
    CASE type = "keystroke" ->
           LET counted == [gs EXCEPT !.statistics.keystrokes = @ + 1]
               bonus   == IF gs.equipment.keyboard.owned
                            THEN Scale + gs.equipment.keyboard.level * 2
                            ELSE Scale
           IN  IF r < KeystrokeChance
                 THEN [counted EXCEPT !.resources.linesOfCode = @ + bonus]
                 ELSE counted
      [] type = "fileOpen" ->
           [gs EXCEPT !.statistics.filesOpened = @ + 1]
      [] type = "fileSave" ->
           LET saveBonus == 5 + ((r * 11) \div 100)
           IN  [gs EXCEPT !.statistics.filesSaved = @ + 1,
                          !.resources.linesOfCode = @ + saveBonus * Scale,
                          !.character.experience = @ + 2]

\* r: the Math.random() draw of the keystroke and fileSave cases
onEditorInteraction(gs, type, r) ==
    CASE type = "keystroke" ->
           LET counted == [gs EXCEPT !.statistics.keystrokes = @ + 1]
               bonus   == IF gs.equipment.keyboard.owned
                            THEN Scale + gs.equipment.keyboard.level * 2
                            ELSE Scale
           IN  IF r < KeystrokeChance
                 THEN [counted EXCEPT !.resources.linesOfCode = @ + bonus]
                 ELSE counted
      [] type = "fileOpen" ->
           [gs EXCEPT !.statistics.filesOpened = @ + 1]
      [] type = "fileSave" ->
           LET saveBonus == 5 + ((r * 10) \div 100)
           IN  [gs EXCEPT !.statistics.filesSaved = @ + 1,
                          !.resources.linesOfCode = @ + saveBonus * Scale,
                          !.character.experience = @ + 2]

resetGame == createDefaultGameState

\* a field of a returned object that is the nested object of the state itself
Shared == [shared |-> TRUE]

\* { ...this.gameState }: a new object whose fields are the nested objects of
\* the state, not copies of them
getGameState(gs) ==
    [ taken |-> TRUE, fields |-> [k \in DOMAIN gs |-> Shared] ]

\* what a consumer reads through a returned object while the state is gs
SnapshotView(snap, gs) ==
    [k \in DOMAIN snap.fields |->
        IF snap.fields[k] = Shared THEN gs[k] ELSE snap.fields[k].own]

\* this.gameState = <a new object>: the nested objects a returned object
\* holds are no longer those of the state, and keep the values they had
Detach(snap, gs) ==
    IF snap.taken
      THEN [snap EXCEPT !.fields =
              [k \in DOMAIN snap.fields |->
                  IF snap.fields[k] = Shared THEN [own |-> gs[k]]
                                             ELSE snap.fields[k]]]
      ELSE snap

----------------------------------------------------------------------------
(* Save migration: loadGameState *)

\* mutant: the block is replaced by an object with the current key alone
Rename_ClearsBlock(obj, old, new) ==
    IF old \in DOMAIN obj
      THEN [k \in {new} |-> obj[old]]
      ELSE obj

\* mutant: the deprecated key is copied but not deleted
Rename_KeepsOld(obj, old, new) ==
    IF old \in DOMAIN obj
      THEN [k \in DOMAIN obj \cup {new} |->
                IF k = new THEN obj[old] ELSE obj[k]]
      ELSE obj

\* obj[new] = obj[old]; delete obj[old], when obj[old] !== undefined
Rename(obj, old, new) ==
    IF old \in DOMAIN obj
      THEN [k \in (DOMAIN obj \ {old}) \cup {new} |->
                IF k = new THEN obj[old] ELSE obj[k]]
      ELSE obj

\* savedState.battle?.currentBug is truthy
HasBug(blob) ==
    /\ "battle" \in DOMAIN blob
    /\ "currentBug" \in DOMAIN blob.battle
    /\ blob.battle.currentBug # Null

\* mutant: the third rename stores stats.defense under stats.attack
MigrationSteps_Typo ==
    << <<"stats", "computingPower", "handSpeed">>,
       <<"stats", "attack", "algorithm">>,
       <<"stats", "defense", "attack">>,
       <<"upgradeCosts", "computingPower", "handSpeed">>,
       <<"upgradeCosts", "attack", "algorithm">>,
       <<"upgradeCosts", "defense", "iteration">>,
       <<"currentBug", "attack", "algorithm">>,
       <<"currentBug", "defense", "iteration">> >>

\* the eight renames, in the order of the code: <<block, deprecated, current>>
MigrationSteps ==
    << <<"stats", "computingPower", "handSpeed">>,
       <<"stats", "attack", "algorithm">>,
       <<"stats", "defense", "iteration">>,
       <<"upgradeCosts", "computingPower", "handSpeed">>,
       <<"upgradeCosts", "attack", "algorithm">>,
       <<"upgradeCosts", "defense", "iteration">>,
       <<"currentBug", "attack", "algorithm">>,
       <<"currentBug", "defense", "iteration">> >>

\* one guarded rename of loadGameState
MigrateStep(blob, step) ==
    CASE step[1] = "stats" ->
           IF "stats" \in DOMAIN blob
             THEN [blob EXCEPT !.stats = Rename(@, step[2], step[3])]
             ELSE blob
      [] step[1] = "upgradeCosts" ->
           IF "upgradeCosts" \in DOMAIN blob
             THEN [blob EXCEPT !.upgradeCosts = Rename(@, step[2], step[3])]
             ELSE blob
      [] step[1] = "currentBug" ->
           IF HasBug(blob)
             THEN [blob EXCEPT !.battle.currentBug = Rename(@, step[2], step[3])]
             ELSE blob

\* the renames steps[order[1]], steps[order[2]], ... applied in that order
RECURSIVE MigrateInOrder(_, _)
MigrateInOrder(blob, order) ==
    IF order = <<>>
      THEN blob
      ELSE MigrateInOrder(MigrateStep(blob, MigrationSteps[Head(order)]),
                          Tail(order))

CodeOrder == <<1, 2, 3, 4, 5, 6, 7, 8>>

loadGameState(savedState) ==
    IF savedState # Absent
      THEN MigrateInOrder(savedState, CodeOrder)
      ELSE createDefaultGameState

----------------------------------------------------------------------------
(* Persisted blobs the extension starts from *)

\* a save of an older version: deprecated names in all three places, and an
\* encounter in progress
LegacyBlob ==
    [ character    |-> [ name |-> "hero", level |-> 1, experience |-> 96,
                         experienceToNext |-> 100 ],
      resources    |-> [ linesOfCode |-> 0, bugFragments |-> 1 ],
      stats        |-> [ computingPower |-> 1, attack |-> 5, defense |-> 3 ],
      upgradeCosts |-> [ computingPower |-> 50, attack |-> 30, defense |-> 40 ],
      equipment    |-> createDefaultGameState.equipment,
      statistics   |-> createDefaultGameState.statistics,
      battle       |-> [ currentBug |->
                           [ name |-> "MemoryLeak", type |-> "MemoryLeak",
                             health |-> 7, maxHealth |-> 15,
                             attack |-> 7, defense |-> 1,
                             reward |-> [ linesOfCode |-> 10, bugFragments |-> 1,
                                          experience |-> 5 ] ],
                         isInBattle |-> TRUE ],
      settings     |-> [ autoSave |-> TRUE, showNotifications |-> TRUE ] ]

\* a save in the current schema: equipment owned, autosave off, and the
\* experience of many file saves that no tick has levelled up yet
VeteranBlob ==
    [ character    |-> [ name |-> "hero", level |-> 1, experience |-> 260,
                         experienceToNext |-> 100 ],
      resources    |-> [ linesOfCode |-> 0, bugFragments |-> 0 ],
      stats        |-> [ handSpeed |-> 1, algorithm |-> 5, iteration |-> 3 ],
      upgradeCosts |-> [ handSpeed |-> 50, algorithm |-> 30, iteration |-> 40 ],
      equipment    |-> [ keyboard      |-> [ level |-> 2, owned |-> TRUE ],
                         ideExtension  |-> [ level |-> 3, owned |-> TRUE ],
                         debugger      |-> [ level |-> 1, owned |-> FALSE ],
                         coffeeMachine |-> [ level |-> 1, owned |-> FALSE ] ],
      statistics   |-> createDefaultGameState.statistics,
      battle       |-> [ currentBug |-> Null, isInBattle |-> FALSE ],
      settings     |-> [ autoSave |-> FALSE, showNotifications |-> FALSE ] ]

StartBlobs == {Absent, LegacyBlob, VeteranBlob}

----------------------------------------------------------------------------
(* The extension at run time: the game loop and the editor callbacks *)

MaxTicks == 5
MaxInteractions == 2

\* the editor events counted so far
Interactions(gs) ==
    gs.statistics.keystrokes + gs.statistics.filesOpened
        + gs.statistics.filesSaved

Op(op, arg, ret) == [op |-> op, arg |-> arg, ret |-> ret]

\* context.globalState.update(saveKey, gameState): the blob stored
saveGameState(gs) == gs

\* new GameStateManager(context)
Init ==
    /\ persisted \in StartBlobs
    /\ gameState = loadGameState(persisted)
    /\ lastOp = Op("load", "", "void")
    /\ snapshot = NoSnapshot
    /\ gameLoop = "running"
    /\ frame = NoFrame

\* the draws one tick makes from the state gs: the spawn draw only when no
\* encounter is active after combat, the type draw only when the spawn succeeds
SpawnDraws(gs) ==
    IF processBattle(accrue(gs)).battle.isInBattle THEN {0} ELSE RandomDraws

TypeDraws(gs, r1) ==
    IF spawnCheck(processBattle(accrue(gs)), r1) THEN RandomDraws ELSE {0}

\* mutant: the autosave runs before the level-up check
Tick_SavesBeforeLevelUp ==
    /\ gameState.statistics.totalPlayTime < MaxTicks
    /\ \E r1 \in SpawnDraws(gameState) :
         \E r2 \in TypeDraws(gameState, r1) :
           /\ gameState' = updateGameState(gameState, r1, r2)
           /\ persisted' = IF gameState'.settings.autoSave
                             THEN saveGameState(
                                    updateGameState_NoLevelUp(gameState, r1, r2))
                             ELSE persisted
    /\ lastOp' = Op("tick", "", "void")
    /\ UNCHANGED snapshot
    /\ UNCHANGED hostVars

\* setInterval(() => gameStateManager.updateGameState(), 1000)
Tick ==
    /\ gameState.statistics.totalPlayTime < MaxTicks
    /\ \E r1 \in SpawnDraws(gameState) :
         \E r2 \in TypeDraws(gameState, r1) :
           /\ gameState' = updateGameState(gameState, r1, r2)
           /\ persisted' = IF gameState'.settings.autoSave
                             THEN saveGameState(gameState')
                             ELSE persisted
    /\ lastOp' = Op("tick", "", "void")
    /\ UNCHANGED snapshot
    /\ UNCHANGED hostVars

BuyUpgrade(upgradeType) ==
    LET r == buyUpgrade(gameState, upgradeType)
    IN  /\ gameState' = r.state
        /\ lastOp' = Op("buyUpgrade", upgradeType,
                        IF r.ret THEN "true" ELSE "false")
        /\ UNCHANGED <<persisted, snapshot>>
        /\ UNCHANGED hostVars

Keystroke ==
    /\ Interactions(gameState) < MaxInteractions
    /\ \E r \in RandomDraws :
         gameState' = onEditorInteraction(gameState, "keystroke", r)
    /\ lastOp' = Op("keystroke", "", "void")
    /\ UNCHANGED <<persisted, snapshot>>
    /\ UNCHANGED hostVars

FileOpen ==
    /\ Interactions(gameState) < MaxInteractions
    /\ gameState' = onEditorInteraction(gameState, "fileOpen", 0)
    /\ lastOp' = Op("fileOpen", "", "void")
    /\ UNCHANGED <<persisted, snapshot>>
    /\ UNCHANGED hostVars

FileSave ==
    /\ Interactions(gameState) < MaxInteractions
    /\ \E r \in RandomDraws :
         gameState' = onEditorInteraction(gameState, "fileSave", r)
    /\ lastOp' = Op("fileSave", "", "void")
    /\ UNCHANGED <<persisted, snapshot>>
    /\ UNCHANGED hostVars

\* mutant: the reset saves only when autoSave is on, as a tick does
Reset_HonoursAutoSave ==
    /\ gameState' = resetGame
    /\ persisted' = IF gameState.settings.autoSave
                      THEN saveGameState(gameState')
                      ELSE persisted
    /\ lastOp' = Op("reset",
                    IF gameState.settings.autoSave THEN "autoSave" ELSE "manual",
                    "void")
    /\ snapshot' = Detach(snapshot, gameState)
    /\ UNCHANGED hostVars

\* the reset command, confirmed; the argument recorded is the autoSave
\* setting at the call
Reset ==
    /\ gameState' = resetGame
    /\ persisted' = saveGameState(gameState')
    /\ lastOp' = Op("reset",
                    IF gameState.settings.autoSave THEN "autoSave" ELSE "manual",
                    "void")
    /\ snapshot' = Detach(snapshot, gameState)
    /\ UNCHANGED hostVars

Next ==
    \/ Tick
    \/ \E upgradeType \in UpgradeTypes : BuyUpgrade(upgradeType)
    \/ Keystroke
    \/ FileOpen
    \/ FileSave
    \/ Reset

Spec == Init /\ [][Next]_vars

\* the first run: nothing is stored, the constructor takes the default state
InitDefault ==
    /\ Init
    /\ persisted = Absent

SpecDefault == InitDefault /\ [][Next]_vars

----------------------------------------------------------------------------
(* Idle play and purchases: the runs from the default state in which no     *)
(* spawn draw succeeds, with upgrade purchases                              *)

MaxIdleTicks == 150

\* a tick whose spawn draw fails
IdleTick ==
    /\ gameState.statistics.totalPlayTime < MaxIdleTicks
    /\ gameState' = updateGameState(gameState, 99, 0)
    /\ persisted' = IF gameState'.settings.autoSave
                      THEN saveGameState(gameState')
                      ELSE persisted
    /\ lastOp' = Op("tick", "", "void")
    /\ UNCHANGED snapshot
    /\ UNCHANGED hostVars

InitUpgrade ==
    /\ persisted = Absent
    /\ gameState = loadGameState(persisted)
    /\ lastOp = Op("load", "", "void")
    /\ snapshot = NoSnapshot
    /\ gameLoop = "running"
    /\ frame = NoFrame

NextUpgrade ==
    \/ IdleTick
    \/ \E upgradeType \in UpgradeTypes : BuyUpgrade(upgradeType)

SpecUpgrade == InitUpgrade /\ [][NextUpgrade]_vars

----------------------------------------------------------------------------
(* A working session: the runs from the default state in which the editor   *)
(* saves files many times between the ticks of the game loop                *)

MaxFilesSaved == 51
MaxSessionTicks == 2

\* the draw of the save bonus: the middle of [0, 1)
SaveDraws == {55}

\* EditorListener.onTextDocumentSave
OnTextDocumentSave ==
    /\ gameState.statistics.filesSaved < MaxFilesSaved
    /\ \E r \in SaveDraws :
         gameState' = onEditorInteraction(gameState, "fileSave", r)
    /\ lastOp' = Op("fileSave", "", "void")
    /\ UNCHANGED <<persisted, snapshot>>
    /\ UNCHANGED hostVars

\* the callback of the game loop
GameLoop ==
    /\ gameState.statistics.totalPlayTime < MaxSessionTicks
    /\ \E r1 \in SpawnDraws(gameState) :
         \E r2 \in TypeDraws(gameState, r1) :
           /\ gameState' = updateGameState(gameState, r1, r2)
           /\ persisted' = IF gameState'.settings.autoSave
                             THEN saveGameState(gameState')
                             ELSE persisted
    /\ lastOp' = Op("tick", "", "void")
    /\ UNCHANGED snapshot
    /\ UNCHANGED hostVars

InitSession ==
    /\ persisted = Absent
    /\ gameState = loadGameState(persisted)
    /\ lastOp = Op("load", "", "void")
    /\ snapshot = NoSnapshot
    /\ gameLoop = "running"
    /\ frame = NoFrame

NextSession ==
    \/ GameLoop
    \/ OnTextDocumentSave
    \/ Reset

SpecSession == InitSession /\ [][NextSession]_vars

----------------------------------------------------------------------------
(* Read-only consumers: a caller of getGameState that keeps the object it   *)
(* was given while the game goes on, or assigns to it (runs without a       *)
(* reset: every object a consumer holds is of the current state)            *)

MaxSnapshotTicks == 2

\* the nested assignments a consumer makes through the object it holds
ConsumerWrites == {"resources.linesOfCode", "battle.currentBug.health"}

\* the values a consumer assigns
ConsumerValues == {0}

\* the state obj with the nested field at path assigned the value v
AssignNested(obj, path, v) ==
    CASE path = "resources.linesOfCode" ->
           [obj EXCEPT !.resources.linesOfCode = v]
      [] path = "battle.currentBug.health" ->
           [obj EXCEPT !.battle.currentBug.health = v]

\* the top-level field an assignment at path goes through
FieldOf(path) ==
    CASE path = "resources.linesOfCode" -> "resources"
      [] path = "battle.currentBug.health" -> "battle"

\* a consumer calls getGameState() and keeps the object returned
GetGameState ==
    /\ snapshot' = getGameState(gameState)
    /\ lastOp' = Op("getGameState", "", "snapshot")
    /\ UNCHANGED <<gameState, persisted>>
    /\ UNCHANGED hostVars

\* a consumer assigns to a nested field of the object it holds: the nested
\* object is the one of the state when the field is shared
ConsumerWrite(path) ==
    /\ snapshot.taken
    /\ lastOp.op # "write"
    /\ path = "battle.currentBug.health" =>
         SnapshotView(snapshot, gameState).battle.currentBug # Null
    /\ \E v \in ConsumerValues :
         IF snapshot.fields[FieldOf(path)] = Shared
           THEN /\ gameState' = AssignNested(gameState, path, v)
                /\ UNCHANGED snapshot
           ELSE /\ snapshot' =
                     [snapshot EXCEPT !.fields[FieldOf(path)].own =
                         AssignNested(SnapshotView(snapshot, gameState),
                                      path, v)[FieldOf(path)]]
                /\ UNCHANGED gameState
    /\ lastOp' = Op("write", path, "void")
    /\ UNCHANGED persisted
    /\ UNCHANGED hostVars

NextSnapshot ==
    \/ GetGameState
    \/ \E path \in ConsumerWrites : ConsumerWrite(path)
    \/ gameState.statistics.totalPlayTime < MaxSnapshotTicks /\ Tick
    \/ \E upgradeType \in UpgradeTypes : BuyUpgrade(upgradeType)
    \/ Keystroke
    \/ FileOpen
    \/ FileSave

SpecSnapshot == Init /\ [][NextSnapshot]_vars

----------------------------------------------------------------------------
(* Persistence failures: the runs of the game loop in which the update of   *)
(* context.globalState made by a tick's autosave may be rejected            *)

MaxFailingTicks == 6

\* what the update of a tick's autosave leaves under the save key: the state
\* handed over when the update is fulfilled, the blob as it was when it is
\* rejected
globalStateUpdate(blob, gs, fulfilled) == IF fulfilled THEN gs ELSE blob

\* mutant: a rejected update undoes the tick
AutosaveTick_AbortsOnFailure ==
    /\ gameState.statistics.totalPlayTime < MaxFailingTicks
    /\ \E r1 \in SpawnDraws(gameState) :
         \E r2 \in TypeDraws(gameState, r1) :
           \E fulfilled \in BOOLEAN :
             LET next == updateGameState(gameState, r1, r2)
             IN  /\ gameState' = IF next.settings.autoSave /\ ~fulfilled
                                   THEN gameState ELSE next
                 /\ persisted' =
                       IF next.settings.autoSave
                         THEN globalStateUpdate(persisted, next, fulfilled)
                         ELSE persisted
                 /\ lastOp' = Op("tick",
                                 [ r1 |-> r1, r2 |-> r2,
                                   save |-> IF ~next.settings.autoSave
                                              THEN "none"
                                              ELSE IF fulfilled THEN "fulfilled"
                                                                ELSE "rejected" ],
                                 "void")
    /\ UNCHANGED snapshot
    /\ UNCHANGED hostVars

\* mutant: the tick saves without looking at settings.autoSave
AutosaveTick_AlwaysSaves ==
    /\ gameState.statistics.totalPlayTime < MaxFailingTicks
    /\ \E r1 \in SpawnDraws(gameState) :
         \E r2 \in TypeDraws(gameState, r1) :
           \E fulfilled \in BOOLEAN :
             /\ gameState' = updateGameState(gameState, r1, r2)
             /\ persisted' =
                   globalStateUpdate(persisted, gameState', fulfilled)
             /\ lastOp' = Op("tick",
                             [ r1 |-> r1, r2 |-> r2,
                               save |-> IF fulfilled THEN "fulfilled"
                                                     ELSE "rejected" ],
                             "void")
    /\ UNCHANGED snapshot
    /\ UNCHANGED hostVars

\* one tick of the game loop: updateGameState does not await the update it
\* starts, so the tick returns before the update is settled, whatever its
\* outcome; the draws and the outcome are recorded
AutosaveTick ==
    /\ gameState.statistics.totalPlayTime < MaxFailingTicks
    /\ \E r1 \in SpawnDraws(gameState) :
         \E r2 \in TypeDraws(gameState, r1) :
           \E fulfilled \in BOOLEAN :
             /\ gameState' = updateGameState(gameState, r1, r2)
             /\ persisted' =
                   IF gameState'.settings.autoSave
                     THEN globalStateUpdate(persisted, gameState', fulfilled)
                     ELSE persisted
             /\ lastOp' = Op("tick",
                             [ r1 |-> r1, r2 |-> r2,
                               save |-> IF ~gameState'.settings.autoSave
                                          THEN "none"
                                          ELSE IF fulfilled THEN "fulfilled"
                                                            ELSE "rejected" ],
                             "void")
    /\ UNCHANGED snapshot
    /\ UNCHANGED hostVars

NextPersist == AutosaveTick

SpecPersist == Init /\ [][NextPersist]_vars

----------------------------------------------------------------------------
(* Level-ups: checkLevelUp on a valid character that has been granted       *)
(* experience                                                               *)

MaxStartLevel == 3
MaxGrant == 400

\* the experience grants tried: a file save, an encounter, and large ones
Grants == {2, 5, 150, MaxGrant}

\* the default state raised to a level by level-ups, holding experience e
StateAtLevel(level, e) ==
    [createDefaultGameState EXCEPT
        !.character.level = level,
        !.character.experience = e,
        !.character.experienceToNext = 100 + (level - 1) * 50,
        !.stats.handSpeed = @ + (level - 1),
        !.stats.algorithm = @ + 2 * (level - 1),
        !.stats.iteration = @ + (level - 1)]

\* character.experience += grant (defeatBug, onEditorInteraction)
grantExperience(gs, grant) ==
    [gs EXCEPT !.character.experience = @ + grant]

InitLevel ==
    /\ \E level \in 1..MaxStartLevel :
         \E e \in 0..(100 + (level - 1) * 50 - 1) :
           \E grant \in Grants :
             /\ gameState = grantExperience(StateAtLevel(level, e), grant)
             /\ lastOp = Op("grant",
                            [level |-> level, experience |-> e, grant |-> grant],
                            "void")
    /\ persisted = Absent
    /\ snapshot = NoSnapshot
    /\ gameLoop = "running"
    /\ frame = NoFrame

CheckLevelUp ==
    /\ lastOp.op = "grant"
    /\ gameState' = checkLevelUp(gameState)
    /\ lastOp' = Op("checkLevelUp", lastOp.arg, "void")
    /\ UNCHANGED <<persisted, snapshot>>
    /\ UNCHANGED hostVars

\* checkLevelUp called again, nothing granted in between
CheckLevelUpAgain ==
    /\ lastOp.op = "checkLevelUp"
    /\ gameState' = checkLevelUp(gameState)
    /\ lastOp' = Op("checkLevelUpAgain", lastOp.arg, "void")
    /\ UNCHANGED <<persisted, snapshot>>
    /\ UNCHANGED hostVars

NextLevel == CheckLevelUp \/ CheckLevelUpAgain

SpecLevel == InitLevel /\ [][NextLevel]_vars

----------------------------------------------------------------------------
(* The editor listener: document changes, opens and saves between ticks     *)

MaxCharacters == 2
MaxEditorTicks == 2

\* the code patterns of checkSpecialEvents and their bug types, in order
patterns == <<"NullPointerException", "InfiniteLoop", "MemoryLeak", "RuntimeError">>

\* the draws of a keystroke: just below 0.1 and 0.1 itself
KeyDraws == {9, 10}

\* the patterns that match and draw below 0.05 in a document change
TriggerDraws == {{}, {"MemoryLeak"}, {"NullPointerException", "RuntimeError"}}

\* mutant: the special bug event puts its bug into the battle slot
triggerSpecialBugEvent_StartsBattle(gs, bugType) ==
    [gs EXCEPT !.battle = [ currentBug |-> createBug(gs, bugType),
                            isInBattle |-> TRUE ]]

\* a warning message, and the openGame command if the user chooses to fight:
\* the game state is not touched
triggerSpecialBugEvent(gs, bugType) == gs

\* the loop over the patterns from the i-th on
RECURSIVE checkSpecialEvents(_, _, _)
checkSpecialEvents(gs, triggered, i) ==
    IF i > Len(patterns)
      THEN gs
      ELSE checkSpecialEvents(
             IF patterns[i] \in triggered
               THEN triggerSpecialBugEvent(gs, patterns[i])
               ELSE gs,
             triggered, i + 1)

\* one onEditorInteraction('keystroke') per character added; draws holds the
\* draw of each
RECURSIVE keystrokes(_, _)
keystrokes(gs, draws) ==
    IF draws = <<>>
      THEN gs
      ELSE keystrokes(onEditorInteraction(gs, "keystroke", Head(draws)),
                      Tail(draws))

\* the reward multiplier of a file extension, in tenths; an extension not
\* in the table has 1.0
getFileTypeMultiplier(extension) ==
    CASE extension = ".ts" -> 15
      [] extension = ".js" -> 13
      [] extension = ".py" -> 14
      [] extension = ".java" -> 13
      [] extension = ".cpp" -> 16
      [] extension = ".c" -> 15
      [] extension = ".go" -> 14
      [] extension = ".rust" -> 17
      [] extension = ".html" -> 11
      [] extension = ".css" -> 11
      [] extension = ".json" -> 10
      [] extension = ".md" -> 8
      [] extension = ".txt" -> 5
      [] extension = "" -> 10
      [] OTHER -> 10

\* mutant: the characters added are the net change of the whole event
totalCharactersAdded_NetOfEvent(contentChanges, sum) ==
    LET RECURSIVE net(_)
        net(cs) == IF cs = <<>> THEN 0
                   ELSE Head(cs).text - Head(cs).rangeLength + net(Tail(cs))
    IN  sum + Max(0, net(contentChanges))

\* the loop over the content changes: a change is its text's length and
\* the length of the range it replaces; sum is the running total
RECURSIVE totalCharactersAdded(_, _)
totalCharactersAdded(contentChanges, sum) ==
    IF contentChanges = <<>>
      THEN sum
      ELSE LET change    == Head(contentChanges)
               netChange == change.text - change.rangeLength
           IN  totalCharactersAdded(Tail(contentChanges),
                                    IF netChange > 0 THEN sum + netChange
                                                     ELSE sum)

\* the data handed to onEditorInteraction with every keystroke of the event
keystrokeData(event) ==
    [ fileType   |-> event.extension,
      multiplier |-> getFileTypeMultiplier(event.extension) ]

\* the handler of a document change. An event is its content changes and
\* the extension of its document (getFileExtension of the file name). The
\* keystroke case of onEditorInteraction does not read its data argument,
\* so keystrokeData(event) reaches no assignment.
onTextDocumentChange(gs, event, draws, triggered) ==
    IF Len(event.contentChanges) = 0
      THEN gs
      ELSE checkSpecialEvents(keystrokes(gs, draws), triggered, 1)

\* a document change that adds Len(draws) characters net
OnTextDocumentChange ==
    /\ Interactions(gameState) < MaxInteractions
    /\ \E n \in 0..MaxCharacters :
         \E draws \in [1..n -> KeyDraws] :
           \E triggered \in TriggerDraws :
             /\ gameState' =
                  onTextDocumentChange(
                    gameState,
                    [ contentChanges |-> <<[text |-> n, rangeLength |-> 0]>>,
                      extension |-> ".ts" ],
                    draws, triggered)
             /\ lastOp' = Op("textChange",
                            [characters |-> n, triggered |-> triggered],
                            "void")
    /\ UNCHANGED <<persisted, snapshot>>
    /\ UNCHANGED hostVars

NextEditor ==
    \/ OnTextDocumentChange
    \/ FileOpen
    \/ FileSave
    \/ gameState.statistics.totalPlayTime < MaxEditorTicks /\ Tick

SpecEditor == Init /\ [][NextEditor]_vars

----------------------------------------------------------------------------
(* Document change events: several content changes, insertions, deletions   *)
(* and replacements, in documents of several types                          *)

MaxKeystrokes == 1

FileExtensions == {".ts", ".md", ".txt"}

\* a change inserts up to MaxCharacters characters at a position or in
\* place of one character
ContentChange ==
    [text : 0..MaxCharacters, rangeLength : {0, 1}]

\* the events of no, one or two content changes
DocumentEvents ==
    { [contentChanges |-> cs, extension |-> ext] :
        cs \in UNION { [1..k -> ContentChange] : k \in {0, 1, 2} },
        ext \in FileExtensions }

OnDocumentEvent ==
    /\ gameState.statistics.keystrokes < MaxKeystrokes
    /\ \E event \in DocumentEvents :
         \E draws \in [1..totalCharactersAdded(event.contentChanges, 0)
                          -> KeyDraws] :
           \E triggered \in {{}, {"MemoryLeak"}} :
             /\ gameState' =
                  onTextDocumentChange(gameState, event, draws, triggered)
             /\ lastOp' = Op("textChange",
                            [event |-> event, data |-> keystrokeData(event)],
                            "void")
    /\ UNCHANGED <<persisted, snapshot>>
    /\ UNCHANGED hostVars

NextDocument == OnDocumentEvent

SpecDocument == Init /\ [][NextDocument]_vars

----------------------------------------------------------------------------
(* The extension host: the timer callback, the save listener, the view's    *)
(* purchase message and the reset command are callbacks that the host       *)
(* enters and that return; a callback works on the state it found when it   *)
(* was entered                                                              *)

MaxHostTicks == 2
MaxHostSaves == 2

\* mutant: the host enters a callback while another has not returned
CanEnter_WhileRunning == Len(frame) < 2

\* the callbacks are synchronous functions on the one thread of the
\* extension host: a callback is entered when none is running
CanEnter == frame = NoFrame

\* the callbacks that can be entered in the state gs, with their draws
Callbacks(gs) ==
    { [op |-> "tick", arg |-> [r1 |-> r1, r2 |-> r2]] :
        r1 \in IF gs.statistics.totalPlayTime < MaxHostTicks
                 THEN SpawnDraws(gs) ELSE {},
        r2 \in RandomDraws }
    \cup { [op |-> "fileSave", arg |-> r] :
             r \in IF gs.statistics.filesSaved < MaxHostSaves
                     THEN SaveDraws ELSE {} }
    \cup { [op |-> "buyUpgrade", arg |-> u] : u \in UpgradeTypes }
    \cup { [op |-> "reset", arg |-> ""] }

\* what the callback makes of the state gs
RunCallback(cb, gs) ==
    CASE cb.op = "tick" -> updateGameState(gs, cb.arg.r1, cb.arg.r2)
      [] cb.op = "fileSave" -> onEditorInteraction(gs, "fileSave", cb.arg)
      [] cb.op = "buyUpgrade" -> buyUpgrade(gs, cb.arg).state
      [] cb.op = "reset" -> resetGame

\* the host calls a callback, which reads the state
Enter ==
    /\ CanEnter
    /\ \E cb \in Callbacks(gameState) :
         /\ cb.op = "tick" => cb.arg.r2 \in TypeDraws(gameState, cb.arg.r1)
         /\ frame' = Append(frame, [cb |-> cb, seen |-> gameState])
    /\ UNCHANGED <<gameState, persisted, lastOp, snapshot, gameLoop>>

\* a callback that was entered writes the state and returns
Return ==
    \E i \in 1..Len(frame) :
      LET f == frame[i]
      IN  /\ gameState' = RunCallback(f.cb, f.seen)
          /\ persisted' =
               IF \/ f.cb.op = "reset"
                  \/ f.cb.op = "tick" /\ gameState'.settings.autoSave
                 THEN saveGameState(gameState')
                 ELSE persisted
          /\ lastOp' = Op(f.cb.op, f.cb.arg, "void")
          /\ frame' = SubSeq(frame, 1, i - 1) \o SubSeq(frame, i + 1, Len(frame))
          /\ UNCHANGED <<snapshot, gameLoop>>

NextHost == Enter \/ Return

SpecHost == Init /\ [][NextHost]_vars

----------------------------------------------------------------------------
(* Encounters of later levels: the game at a level it has reached, with     *)
(* lines of code to spend and an encounter of that level in the slot        *)

MaxEncounterLevel == 6
MaxEncounterTicks == 2
MaxFunds == 100

\* the state at a level, a tick away from the next level or far from it,
\* fighting an encounter it spawned at that level: fresh, or at 1 health
EncounterStates ==
    UNION { { [StateAtLevel(level, e) EXCEPT
                 !.resources.linesOfCode = funds * Scale,
                 !.battle =
                     [ currentBug |->
                         [createBug(StateAtLevel(level, e), "RuntimeError")
                             EXCEPT !.health = IF wounded THEN 1 ELSE @],
                       isInBattle |-> TRUE ]] :
                e \in {0, 100 + (level - 1) * 50 - 1},
                funds \in {0, MaxFunds},
                wounded \in BOOLEAN } :
            level \in 1..MaxEncounterLevel }

\* the state at a level with the slot empty, after a defeat: far from the
\* next level, or a file save past it (threshold - 1 + 2) with the level-up
\* still to come
SpawnStates ==
    UNION { { [StateAtLevel(level, e) EXCEPT
                 !.resources.linesOfCode = funds * Scale] :
                e \in {0, 100 + (level - 1) * 50 + 1},
                funds \in {0, MaxFunds} } :
            level \in 1..MaxEncounterLevel }

InitEncounter ==
    /\ gameState \in EncounterStates \cup SpawnStates
    /\ persisted = gameState
    /\ lastOp = Op("load", "", "void")
    /\ snapshot = NoSnapshot
    /\ gameLoop = "running"
    /\ frame = NoFrame

NextEncounter ==
    \/ gameState.statistics.totalPlayTime < MaxEncounterTicks /\ Tick
    \/ \E upgradeType \in UpgradeTypes : BuyUpgrade(upgradeType)

SpecEncounter == InitEncounter /\ [][NextEncounter]_vars

----------------------------------------------------------------------------
(* The game loop left running: setInterval (startGameLoop) calls            *)
(* updateGameState every second for as long as the extension is active, so  *)
(* the tick is weakly fair. Encounters spawn in the first MaxSpawnTicks      *)
(* ticks; the loop is followed until the slot is empty after them.           *)

MaxLiveLevel == 2
MaxSpawnTicks == 2

\* more ticks than the health of any encounter spawned in the run
Horizon == MaxSpawnTicks + 10 + (MaxLiveLevel + 2) * 5 + 1

LiveStates ==
    { gs \in EncounterStates \cup SpawnStates :
        gs.character.level <= MaxLiveLevel }

InitLive ==
    /\ gameState \in LiveStates
    /\ persisted = gameState
    /\ lastOp = Op("load", "", "void")
    /\ snapshot = NoSnapshot
    /\ gameLoop = "running"
    /\ frame = NoFrame

\* the draws of a tick: past MaxSpawnTicks only those that spawn nothing
LiveSpawnDraws(gs) ==
    IF gs.statistics.totalPlayTime < MaxSpawnTicks
      THEN SpawnDraws(gs)
      ELSE { r \in SpawnDraws(gs) :
               ~spawnCheck(processBattle(accrue(gs)), r) } \cup {99}

LiveTick ==
    /\ gameLoop = "running"
    /\ gameState.statistics.totalPlayTime < Horizon
    /\ \/ gameState.battle.isInBattle
       \/ gameState.statistics.totalPlayTime < MaxSpawnTicks
    /\ \E r1 \in LiveSpawnDraws(gameState) :
         \E r2 \in TypeDraws(gameState, r1) :
           /\ gameState' = updateGameState(gameState, r1, r2)
           /\ persisted' = IF gameState'.settings.autoSave
                             THEN saveGameState(gameState')
                             ELSE persisted
    /\ lastOp' = Op("tick", "", "void")
    /\ UNCHANGED snapshot
    /\ UNCHANGED hostVars

\* the purchases are those of the stat processBattle reads
NextLive ==
    \/ LiveTick
    \/ BuyUpgrade("algorithm")

SpecLive == InitLive /\ [][NextLive]_vars /\ WF_vars(LiveTick)

----------------------------------------------------------------------------
(* Loading: loadGameState on saves of older and current versions            *)

DeprecatedStatKeys == {"computingPower", "attack", "defense"}
CurrentStatKeys == {"handSpeed", "algorithm", "iteration"}
DeprecatedBugKeys == {"attack", "defense"}
CurrentBugKeys == {"algorithm", "iteration"}

Restrict(obj, keys) == [k \in keys |-> obj[k]]
Without(obj, key) == [k \in DOMAIN obj \ {key} |-> obj[k]]
With(obj, key, v) ==
    [k \in DOMAIN obj \cup {key} |-> IF k = key THEN v ELSE obj[k]]

\* every value differs, so that a rename is told from a default
AllStats ==
    [ computingPower |-> 11, attack |-> 12, defense |-> 13,
      handSpeed |-> 1, algorithm |-> 5, iteration |-> 3 ]

AllCosts ==
    [ computingPower |-> 61, attack |-> 62, defense |-> 63,
      handSpeed |-> 50, algorithm |-> 30, iteration |-> 40 ]

AllBug ==
    [ name |-> "SyntaxError", type |-> "SyntaxError",
      health |-> 11, maxHealth |-> 15,
      attack |-> 21, defense |-> 22, algorithm |-> 7, iteration |-> 1,
      reward |-> [ linesOfCode |-> 10, bugFragments |-> 1, experience |-> 5 ] ]

\* a block with any subset of its deprecated keys, with or without the
\* current keys beside them
Blocks(all, deprecated, current) ==
    { Restrict(all, (DOMAIN all \ (deprecated \cup current)) \cup d \cup c) :
        d \in SUBSET deprecated, c \in {{}, current} }

SavedBlobs ==
    LET full == { [createDefaultGameState EXCEPT
                      !.stats = st, !.upgradeCosts = co,
                      !.battle = [ currentBug |-> bug,
                                   isInBattle |-> bug # Null ]] :
                    st \in Blocks(AllStats, DeprecatedStatKeys, CurrentStatKeys),
                    co \in Blocks(AllCosts, DeprecatedStatKeys, CurrentStatKeys),
                    bug \in Blocks(AllBug, DeprecatedBugKeys, CurrentBugKeys)
                              \cup {Null} }
        old  == [createDefaultGameState EXCEPT
                      !.stats = Restrict(AllStats, DeprecatedStatKeys),
                      !.upgradeCosts = Restrict(AllCosts, DeprecatedStatKeys),
                      !.battle = [ currentBug |->
                                     Without(Without(AllBug, "algorithm"),
                                             "iteration"),
                                   isInBattle |-> TRUE ]]
        \* fields this version does not know, at the top and in each block
        extra(blob) ==
            With([blob EXCEPT
                    !.stats = With(@, "luck", 7),
                    !.upgradeCosts = With(@, "luck", 70),
                    !.battle.currentBug = With(@, "boss", TRUE)],
                 "achievements", <<"firstBlood">>)
        both == [createDefaultGameState EXCEPT
                      !.stats = AllStats, !.upgradeCosts = AllCosts,
                      !.battle = [currentBug |-> AllBug, isInBattle |-> TRUE]]
    IN  full \cup { Without(old, "stats"), Without(old, "upgradeCosts"),
                    Without(old, "battle"),
                    [old EXCEPT !.battle = [isInBattle |-> FALSE]],
                    Without(old, "resources"), Without(old, "statistics"),
                    Without(old, "settings"),
                    Restrict(old, {"character", "stats"}),
                    [old EXCEPT !.stats = Null, !.battle = Null],
                    extra(old), extra(both) }

\* the extension is installed and not yet activated; nothing is stored
\* under the save key before its first run
InitLoad ==
    /\ persisted \in SavedBlobs \cup {Absent}
    /\ gameState = Absent
    /\ lastOp = Op("none", "", "void")
    /\ snapshot = NoSnapshot
    /\ gameLoop = "none"
    /\ frame = NoFrame

\* mutant: deactivate saves and leaves the interval running
Deactivate_LeavesTimer ==
    /\ gameLoop = "running"
    /\ frame = NoFrame
    /\ persisted' = saveGameState(gameState)
    /\ lastOp' = Op("save", "", "void")
    /\ UNCHANGED <<gameState, snapshot, frame, gameLoop>>

\* deactivate(): clearInterval(gameLoop), then
\* gameStateManager.saveGameState()
Deactivate ==
    /\ gameLoop = "running"
    /\ frame = NoFrame
    /\ gameLoop' = "cleared"
    /\ persisted' = saveGameState(gameState)
    /\ lastOp' = Op("save", "", "void")
    /\ UNCHANGED <<gameState, snapshot, frame>>

\* activate(): new GameStateManager(context)
Activate ==
    /\ lastOp.op \in {"none", "save"}
    /\ gameState' = loadGameState(persisted)
    /\ lastOp' = Op("load", IF lastOp.op = "save" THEN "again" ELSE "", "void")
    /\ gameLoop' = "running"
    /\ UNCHANGED <<persisted, snapshot, frame>>

NextLoad == Deactivate \/ Activate

SpecLoad == InitLoad /\ [][NextLoad]_vars

----------------------------------------------------------------------------
(* The life of one activation: the interval calls the tick until            *)
(* deactivate clears it                                                     *)

MaxLifeTicks == 3

\* the callback of setInterval: called while the interval is not cleared
TimerTick ==
    /\ gameLoop = "running"
    /\ gameState.statistics.totalPlayTime < MaxLifeTicks
    /\ Tick

NextLifecycle ==
    \/ TimerTick
    \/ \E upgradeType \in UpgradeTypes :
         gameLoop = "running" /\ BuyUpgrade(upgradeType)
    \/ Deactivate

SpecLifecycle == Init /\ [][NextLifecycle]_vars

----------------------------------------------------------------------------
(* Properties *)

\* an encounter is active in gs
Active(gs) == gs.battle.isInBattle /\ gs.battle.currentBug # Null

\* the damage one tick deals to the active encounter of gs
Damage(gs) ==
    IF gs.stats.algorithm - gs.battle.currentBug.iteration >= 1
      THEN gs.stats.algorithm - gs.battle.currentBug.iteration
      ELSE 1

\* the experience needed to go from level 1 to the given level
RECURSIVE ThresholdSum(_)
ThresholdSum(level) ==
    IF level <= 1 THEN 0 ELSE 100 + (level - 2) * 50 + ThresholdSum(level - 1)

\* all the experience a character has earned
TotalExperience(gs) ==
    gs.character.experience + ThresholdSum(gs.character.level)

BugTypeSet == { bugTypes[i] : i \in 1..Len(bugTypes) }

\* C1: at the end of every tick, and after checkLevelUp on the current state
\* with any further experience granted, experience is below experienceToNext
\* (the level-up loop runs until it is, however many thresholds are crossed).
C1_ExperienceBelowThreshold ==
    /\ lastOp.op = "tick" =>
         gameState.character.experience < gameState.character.experienceToNext
    /\ \A grant \in Grants \cup {0} :
         LET r == checkLevelUp(grantExperience(gameState, grant))
         IN  r.character.experience < r.character.experienceToNext

\* a first tick that crossed two thresholds at once (260 experience at level 1)
C1_Witness ==
    /\ lastOp.op = "tick"
    /\ gameState.statistics.totalPlayTime = 1
    /\ gameState.character.level = 3
    /\ gameState.character.experience = 10

\* the purchases of a stat made since the default state
Purchases(gs, upgradeType) ==
    CASE upgradeType = "handSpeed" ->
           gs.stats.handSpeed - 1 - (gs.character.level - 1)
      [] upgradeType = "algorithm" ->
           (gs.stats.algorithm - 5 - 2 * (gs.character.level - 1)) \div 2
      [] upgradeType = "iteration" ->
           (gs.stats.iteration - 3 - (gs.character.level - 1)) \div 2

InitialCost == [handSpeed |-> 50, algorithm |-> 30, iteration |-> 40]

RECURSIVE Power(_, _)
Power(b, n) == IF n = 0 THEN 1 ELSE b * Power(b, n - 1)

\* c -> floor(c * 1.5), n times
RECURSIVE IteratedCost(_, _)
IteratedCost(c, n) ==
    IF n = 0 THEN c ELSE (IteratedCost(c, n - 1) * 3) \div 2

\* C2 as stated: after n purchases of a stat from the default state its cost
\* is floor(initialCost * 1.5^n).
C2_ClosedFormCost ==
    \A u \in UpgradeTypes :
      LET n == Purchases(gameState, u)
      IN  gameState.upgradeCosts[u] = (InitialCost[u] * Power(3, n)) \div Power(2, n)

\* C2 amended: after n purchases of a stat from the default state its cost is
\* the initial cost (50, 30, 40) taken n times through c -> floor(c * 1.5).
C2_IteratedFloorCost ==
    \A u \in UpgradeTypes :
      gameState.upgradeCosts[u] =
          IteratedCost(InitialCost[u], Purchases(gameState, u))

\* three purchases of algorithm: 30, 45, 67, 100, where floor(30 * 1.5^3) = 101
C2_Witness ==
    /\ Purchases(gameState, "algorithm") = 3
    /\ gameState.upgradeCosts.algorithm = 100
    /\ lastOp = Op("buyUpgrade", "algorithm", "true")

\* C3: a buyUpgrade call made with linesOfCode below the cost of the stat
\* returns false and leaves the whole game state as it was.
C3_RejectedPurchaseChangesNothing ==
    [][ ( /\ lastOp'.op = "buyUpgrade"
          /\ gameState.resources.linesOfCode
               < gameState.upgradeCosts[lastOp'.arg] * Scale )
        => ( lastOp'.ret = "false" /\ gameState' = gameState ) ]_vars

\* a purchase was rejected although some code had been produced
C3_Witness ==
    /\ lastOp.op = "buyUpgrade"
    /\ lastOp.ret = "false"
    /\ gameState.resources.linesOfCode > 0

\* C4: an active encounter stays in the battle slot, hit once per tick and
\* untouched by purchases and interactions, until a tick brings its health to
\* 0 or below and defeats it; only then (or on reset) is the slot given up.
C4_SpawnNeverOverwrites ==
    [][ Active(gameState) =>
          LET bug == gameState.battle.currentBug
              d   == Damage(gameState)
          IN  \/ lastOp'.op = "reset"
              \/ /\ lastOp'.op = "tick"
                 /\ bug.health > d
                 /\ gameState'.battle =
                       [ currentBug |-> [bug EXCEPT !.health = @ - d],
                         isInBattle |-> TRUE ]
              \/ /\ lastOp'.op = "tick"
                 /\ bug.health <= d
                 /\ gameState'.statistics.totalBugsDefeated =
                       gameState.statistics.totalBugsDefeated + 1
              \/ /\ lastOp'.op \notin {"tick", "reset"}
                 /\ gameState'.battle = gameState.battle ]_vars

\* a second encounter is being fought after the first was defeated
C4_Witness ==
    /\ gameState.statistics.totalBugsDefeated >= 1
    /\ Active(gameState)
    /\ gameState.battle.currentBug.health < gameState.battle.currentBug.maxHealth

\* the state of the scenario: experience 95 of 100 at level 1, then 150 granted
C5_Scenario ==
    /\ lastOp.op = "checkLevelUp"
    /\ lastOp.arg = [level |-> 1, experience |-> 95, grant |-> 150]

\* C5 as stated: one level is gained, experience is 45 and the threshold 150.
C5_LeavesFortyFive ==
    C5_Scenario =>
      /\ gameState.character.level = 2
      /\ gameState.character.experience = 45
      /\ gameState.character.experienceToNext = 150

\* C5 amended: one level is gained, experience is 95 + 150 - 100 = 145 and
\* the threshold 150.
C5_LeavesHundredFortyFive ==
    C5_Scenario =>
      /\ gameState.character.level = 2
      /\ gameState.character.experience = 145
      /\ gameState.character.experienceToNext = 150

C5_Witness ==
    /\ C5_Scenario
    /\ gameState.character.level = 2

\* what a tick that defeats the active encounter of the state grants
DefeatGrants ==
    LET bug == gameState.battle.currentBug
        f   == bug.reward.bugFragments
    IN  /\ gameState'.statistics.totalBugsDefeated =
              gameState.statistics.totalBugsDefeated + 1
        /\ gameState'.resources.bugFragments =
              gameState.resources.bugFragments + f
                  + (f * gameState.stats.iteration) \div 10
        /\ gameState'.resources.linesOfCode - gameState.resources.linesOfCode =
              ( gameState'.statistics.totalLinesGenerated
                  - gameState.statistics.totalLinesGenerated )
                  + bug.reward.linesOfCode * Scale
        /\ TotalExperience(gameState') =
              TotalExperience(gameState) + bug.reward.experience

EmptySlot == [currentBug |-> Null, isInBattle |-> FALSE]

\* the tick starts with an encounter whose health the damage covers
FinalBlow ==
    /\ Active(gameState)
    /\ lastOp'.op = "tick"
    /\ gameState.battle.currentBug.health <= Damage(gameState)

\* C6 as stated: such a tick grants the rewards and ends with the slot empty.
C6_SlotEmptyAfterDefeat ==
    [][ FinalBlow => ( DefeatGrants /\ gameState'.battle = EmptySlot ) ]_vars

\* C6 amended: such a tick defeats the encounter and grants its rewards; at
\* the end of the tick the slot is empty, or holds a new encounter at full
\* health that the spawn check of the same tick created.
C6_DefeatedWithinTheTick ==
    [][ FinalBlow =>
          /\ DefeatGrants
          /\ \/ gameState'.battle = EmptySlot
             \/ \E type \in BugTypeSet :
                  gameState'.battle =
                      [ currentBug |-> createBug(gameState, type),
                        isInBattle |-> TRUE ] ]_vars

\* the tick that defeated the encounter of the legacy save (health 7, two
\* ticks) also spawned the next one
C6_Witness ==
    /\ lastOp.op = "tick"
    /\ gameState.statistics.totalPlayTime = 2
    /\ gameState.statistics.totalBugsDefeated = 1
    /\ Active(gameState)
    /\ gameState.battle.currentBug.health = gameState.battle.currentBug.maxHealth

\* health 10, algorithm 5, iteration 1
C7_Example ==
    [createDefaultGameState EXCEPT
        !.battle = [ currentBug |->
                       [createBug(createDefaultGameState, "SyntaxError")
                           EXCEPT !.health = 10],
                     isInBattle |-> TRUE ]]

\* C7: a tick that starts with an active encounter of health h above the
\* damage d = max(1, algorithm - bug.iteration) leaves the same encounter
\* active with health h - d and applies nothing of a defeat: no reward, no
\* experience, no defeated count (health 10, algorithm 5, iteration 1: 6).
C7_HitLeavesEncounterActive ==
    [][ /\ ( /\ Active(gameState)
             /\ lastOp'.op = "tick"
             /\ Damage(gameState) < gameState.battle.currentBug.health )
          => /\ gameState'.battle =
                   [ currentBug |->
                       [gameState.battle.currentBug EXCEPT
                           !.health = @ - Damage(gameState)],
                     isInBattle |-> TRUE ]
             /\ gameState'.resources.bugFragments =
                   gameState.resources.bugFragments
             /\ gameState'.statistics.totalBugsDefeated =
                   gameState.statistics.totalBugsDefeated
             /\ gameState'.resources.linesOfCode - gameState.resources.linesOfCode
                   = gameState'.statistics.totalLinesGenerated
                       - gameState.statistics.totalLinesGenerated
             /\ TotalExperience(gameState') = TotalExperience(gameState)
        /\ processBattle(C7_Example).battle.currentBug.health = 6
        /\ processBattle(C7_Example).battle.isInBattle ]_vars

\* an encounter has been hit by a tick and is still active
C7_Witness ==
    /\ lastOp.op = "tick"
    /\ Active(gameState)
    /\ gameState.battle.currentBug.health
         = gameState.battle.currentBug.maxHealth - 4

\* C8: a tick that defeats no encounter adds the same amount to linesOfCode
\* and totalLinesGenerated: handSpeed, times (1 + level * 0.1) of the IDE
\* extension when it is owned (amounts in tenths); and adds 1 to
\* totalPlayTime.  From the default state: 1, 1 and 1.
C8_AccrualPerTick ==
    [][ ( /\ lastOp'.op = "tick"
          /\ gameState'.statistics.totalBugsDefeated =
                gameState.statistics.totalBugsDefeated )
        => LET ide    == gameState.equipment.ideExtension
               amount == IF ide.owned
                           THEN gameState.stats.handSpeed * (10 + ide.level)
                           ELSE gameState.stats.handSpeed * 10
           IN  /\ gameState'.resources.linesOfCode =
                     gameState.resources.linesOfCode + amount
               /\ gameState'.statistics.totalLinesGenerated =
                     gameState.statistics.totalLinesGenerated + amount
               /\ gameState'.statistics.totalPlayTime =
                     gameState.statistics.totalPlayTime + 1
               /\ gameState = createDefaultGameState =>
                     /\ gameState'.resources.linesOfCode = 1 * Scale
                     /\ gameState'.statistics.totalLinesGenerated = 1 * Scale
                     /\ gameState'.statistics.totalPlayTime = 1 ]_vars

\* a tick with the IDE extension owned at level 3: 1 * 1.3 lines
C8_Witness ==
    /\ lastOp.op = "tick"
    /\ gameState.equipment.ideExtension.owned
    /\ gameState.statistics.totalPlayTime = 1
    /\ gameState.resources.linesOfCode = 13

\* the deprecated keys a blob still holds, as <<block, key>>
DeprecatedKeysOf(blob) ==
    { <<"stats", k>> : k \in IF "stats" \in DOMAIN blob
                               THEN DOMAIN blob.stats \cap DeprecatedStatKeys
                               ELSE {} }
    \cup
    { <<"upgradeCosts", k>> : k \in IF "upgradeCosts" \in DOMAIN blob
                                      THEN DOMAIN blob.upgradeCosts
                                             \cap DeprecatedStatKeys
                                      ELSE {} }
    \cup
    { <<"currentBug", k>> : k \in IF HasBug(blob)
                                    THEN DOMAIN blob.battle.currentBug
                                           \cap DeprecatedBugKeys
                                    ELSE {} }

\* the block of a blob that a rename works on
BlockOf(blob, block) ==
    CASE block = "stats" -> blob.stats
      [] block = "upgradeCosts" -> blob.upgradeCosts
      [] block = "currentBug" -> blob.battle.currentBug

\* C9: loading is idempotent: loading the state a load produced (as the next
\* activation does after a save) gives that state again, and a blob without
\* deprecated keys is loaded unchanged.
C9_MigrationIdempotent ==
    lastOp.op = "load" =>
      /\ loadGameState(saveGameState(gameState)) = gameState
      /\ ( persisted # Absent /\ DeprecatedKeysOf(persisted) = {} ) =>
           gameState = persisted

\* a migrated save was stored and loaded again: handSpeed still holds the
\* value that was saved as computingPower
C9_Witness ==
    /\ lastOp = Op("load", "again", "void")
    /\ gameState.stats.handSpeed = AllStats.computingPower
    /\ persisted = gameState

CurrentName ==
    [computingPower |-> "handSpeed", attack |-> "algorithm",
     defense |-> "iteration"]

\* other orders of the eight renames: the reverse, the bug first, and the
\* code's order rotated
OtherOrders ==
    { <<8, 7, 6, 5, 4, 3, 2, 1>>, <<7, 8, 4, 5, 6, 1, 2, 3>>,
      <<3, 6, 8, 2, 5, 7, 1, 4>> }
    \cup { [i \in 1..8 |-> ((i + k - 1) % 8) + 1] : k \in 1..7 }

\* C10: after a load no deprecated key is left, every deprecated value that
\* the blob held is stored under its current name, and the renames applied in
\* another order give the same state.
C10_DeprecatedKeysRenamed ==
    lastOp.op = "load" =>
      /\ DeprecatedKeysOf(gameState) = {}
      /\ \A bk \in DeprecatedKeysOf(persisted) :
           BlockOf(gameState, bk[1])[CurrentName[bk[2]]]
             = BlockOf(persisted, bk[1])[bk[2]]
      /\ persisted # Absent =>
           \A order \in OtherOrders :
             MigrateInOrder(persisted, order) = gameState

\* a blob with all eight deprecated keys (and the current ones beside them)
\* has been loaded
C10_Witness ==
    /\ lastOp.op = "load"
    /\ Cardinality(DeprecatedKeysOf(persisted)) = 8
    /\ gameState.stats = [handSpeed |-> 11, algorithm |-> 12, iteration |-> 13]
    /\ gameState.upgradeCosts =
         [handSpeed |-> 61, algorithm |-> 62, iteration |-> 63]
    /\ gameState.battle.currentBug.algorithm = 21
    /\ gameState.battle.currentBug.iteration = 22
    /\ DOMAIN gameState.battle.currentBug = DOMAIN createBug(gameState, "SyntaxError")

\* C11 as stated: in every state reached from the default state experience is
\* at least 0 and below experienceToNext.
C11_ExperienceAlwaysBelowThreshold ==
    /\ 0 <= gameState.character.experience
    /\ gameState.character.experience < gameState.character.experienceToNext

\* C11 amended: in every state reached from the default state experience is
\* at least 0, and it is below experienceToNext in the default state, after
\* every tick and after a reset; a file save adds 2 with no level-up check,
\* so that until the next tick experience can be at or above the threshold.
C11_BelowThresholdAfterEveryTick ==
    /\ 0 <= gameState.character.experience
    /\ lastOp.op \in {"load", "tick", "reset"} =>
         gameState.character.experience < gameState.character.experienceToNext

\* 51 file saves brought experience to 102 of 100, and the tick after them
\* made it 2 of 150 at level 2
C11_Witness ==
    /\ lastOp.op = "tick"
    /\ gameState.statistics.filesSaved = 51
    /\ gameState.character.level = 2
    /\ gameState.character.experience = 2
    /\ gameState.character.experienceToNext = 150

\* the six statistics counters
StatisticsKeys ==
    {"totalLinesGenerated", "totalBugsDefeated", "totalPlayTime",
     "keystrokes", "filesOpened", "filesSaved"}

\* C12: in every reachable state linesOfCode, bugFragments, experience and
\* the six statistics counters are at least 0, and no buyUpgrade call made in
\* that state leaves linesOfCode below 0.
C12_NothingNegative ==
    /\ gameState.resources.linesOfCode >= 0
    /\ gameState.resources.bugFragments >= 0
    /\ gameState.character.experience >= 0
    /\ DOMAIN gameState.statistics = StatisticsKeys
    /\ \A k \in StatisticsKeys : gameState.statistics[k] >= 0
    /\ \A u \in UpgradeTypes :
         buyUpgrade(gameState, u).state.resources.linesOfCode >= 0

\* a purchase of algorithm (30) that left less than 1 line of code, after an
\* encounter was defeated
C12_Witness ==
    /\ lastOp = Op("buyUpgrade", "algorithm", "true")
    /\ gameState.resources.linesOfCode < 1 * Scale
    /\ gameState.statistics.totalBugsDefeated = 1
    /\ gameState.resources.bugFragments > 0

\* the amount a purchase adds to a stat
StatStep == [handSpeed |-> 1, algorithm |-> 2, iteration |-> 2]

\* floor(c * 1.5) of an integer c, as the largest integer n with 2n <= 3c
FloorOneAndAHalf(c) == CHOOSE n \in 0..(2 * c) : 2 * n <= 3 * c /\ 3 * c < 2 * (n + 1)

\* C13: buyUpgrade(S) returns true exactly when linesOfCode is at least the
\* cost of S at the call; on success linesOfCode goes down by that cost,
\* stats[S] goes up by 1 (handSpeed) or 2 (algorithm, iteration), the cost of
\* S becomes floor(cost * 1.5), and the other stats, the other costs and the
\* rest of the state stay as they were.
C13_PurchaseEffect ==
    [][ lastOp'.op = "buyUpgrade" =>
          LET S    == lastOp'.arg
              cost == gameState.upgradeCosts[S]
          IN  /\ lastOp'.ret = "true" <=>
                    gameState.resources.linesOfCode >= cost * Scale
              /\ lastOp'.ret \in {"true", "false"}
              /\ lastOp'.ret = "true" =>
                    /\ gameState'.resources.linesOfCode =
                          gameState.resources.linesOfCode - cost * Scale
                    /\ gameState'.stats[S] = gameState.stats[S] + StatStep[S]
                    /\ gameState'.upgradeCosts[S] = FloorOneAndAHalf(cost)
                    /\ \A T \in UpgradeTypes \ {S} :
                          /\ gameState'.stats[T] = gameState.stats[T]
                          /\ gameState'.upgradeCosts[T] = gameState.upgradeCosts[T]
                    /\ gameState'.resources.bugFragments =
                          gameState.resources.bugFragments
                    /\ \A k \in DOMAIN gameState \ {"resources", "stats",
                                                     "upgradeCosts"} :
                          gameState'[k] = gameState[k]
                    /\ DOMAIN gameState' = DOMAIN gameState
                    /\ persisted' = persisted ]_vars

\* a second purchase of handSpeed: 75 paid, the stat at 3, the cost at 112
C13_Witness ==
    /\ lastOp = Op("buyUpgrade", "handSpeed", "true")
    /\ gameState.stats.handSpeed = 3
    /\ gameState.upgradeCosts.handSpeed = 112
    /\ gameState.stats.algorithm = 7

\* the levels a tick gained
LevelsGained == gameState'.character.level - gameState.character.level

\* C14: a tick runs accrual, combat, the spawn check, the level-up check and
\* the conditional autosave in that order: an encounter that is new at the
\* end of a tick is at full health (it was spawned after combat) and has the
\* values of the level before the tick (it was spawned before the level-up
\* check); with autoSave on the state persisted is the state at the end of
\* the tick, and when the tick defeats an encounter whose experience crosses
\* the threshold the persisted state has the raised level, the raised stats
\* and the experience brought below the new threshold; with autoSave off
\* nothing is persisted.
C14_TickOrder ==
    [][ lastOp'.op = "tick" =>
          /\ gameState'.statistics.totalPlayTime =
                gameState.statistics.totalPlayTime + 1
          /\ ( /\ Active(gameState')
               /\ \/ ~Active(gameState)
                  \/ gameState'.statistics.totalBugsDefeated
                        > gameState.statistics.totalBugsDefeated )
             => \E type \in BugTypeSet :
                  gameState'.battle.currentBug = createBug(gameState, type)
          /\ gameState.settings.autoSave => persisted' = gameState'
          /\ ~gameState.settings.autoSave => persisted' = persisted
          /\ ( /\ gameState.settings.autoSave
               /\ Active(gameState)
               /\ gameState.battle.currentBug.health <= Damage(gameState)
               /\ gameState.character.experience
                     + gameState.battle.currentBug.reward.experience
                       >= gameState.character.experienceToNext )
             => /\ LevelsGained >= 1
                /\ persisted'.character.level =
                      gameState.character.level + LevelsGained
                /\ persisted'.character.experience
                      < persisted'.character.experienceToNext
                /\ TotalExperience(persisted') =
                      TotalExperience(gameState)
                        + gameState.battle.currentBug.reward.experience
                /\ persisted'.stats =
                      [ handSpeed |-> gameState.stats.handSpeed + LevelsGained,
                        algorithm |-> gameState.stats.algorithm + 2 * LevelsGained,
                        iteration |-> gameState.stats.iteration + LevelsGained ]
                /\ persisted'.statistics.totalBugsDefeated =
                      gameState.statistics.totalBugsDefeated + 1 ]_vars

\* the second tick on the legacy save (experience 96, health 7) defeated the
\* encounter, spawned the next one with the values of level 1 and levelled
\* up, and all of it is in the state persisted
C14_Witness ==
    /\ lastOp.op = "tick"
    /\ gameState.statistics.totalPlayTime = 2
    /\ gameState.statistics.totalBugsDefeated = 1
    /\ gameState.character.level = 2
    /\ gameState.character.experience = 1
    /\ Active(gameState)
    /\ gameState.battle.currentBug.maxHealth = 15
    /\ persisted = gameState
    /\ persisted.stats = [handSpeed |-> 2, algorithm |-> 7, iteration |-> 4]

\* C15 as stated: getGameState returns a deep copy: an assignment to a
\* nested field of a returned object leaves the game state as it was, and a
\* later tick, purchase or editor interaction leaves what a returned object
\* holds as it was.
C15_SnapshotIsDeepCopy ==
    [][ snapshot.taken =>
          /\ lastOp'.op = "write" => gameState' = gameState
          /\ lastOp'.op \in {"tick", "buyUpgrade", "keystroke", "fileOpen",
                              "fileSave"} =>
                SnapshotView(snapshot', gameState')
                  = SnapshotView(snapshot, gameState) ]_vars

\* the default state as the specification lists it
CanonicalDefault ==
    [ character    |-> [ name |-> "hero", level |-> 1, experience |-> 0,
                         experienceToNext |-> 100 ],
      resources    |-> [ linesOfCode |-> 0, bugFragments |-> 0 ],
      stats        |-> [ handSpeed |-> 1, algorithm |-> 5, iteration |-> 3 ],
      upgradeCosts |-> [ handSpeed |-> 50, algorithm |-> 30, iteration |-> 40 ],
      equipment    |-> [ k \in {"keyboard", "ideExtension", "debugger",
                                "coffeeMachine"} |->
                           [ level |-> 1, owned |-> FALSE ] ],
      statistics   |-> [ k \in StatisticsKeys |-> 0 ],
      battle       |-> [ currentBug |-> Null, isInBattle |-> FALSE ],
      settings     |-> [ autoSave |-> TRUE, showNotifications |-> TRUE ] ]

\* C16: from any state resetGame leaves the state in memory equal to the
\* default state and writes that state to persistence at once, whether
\* autoSave was on or off before the reset.
C16_ResetRestoresAndPersistsDefault ==
    [][ lastOp'.op = "reset" =>
          /\ gameState' = CanonicalDefault
          /\ persisted' = CanonicalDefault
          /\ lastOp'.arg = (IF gameState.settings.autoSave
                              THEN "autoSave" ELSE "manual") ]_vars

\* a reset made with autoSave off (the save with equipment owned): the
\* default state is persisted
C16_Witness ==
    /\ lastOp = Op("reset", "manual", "void")
    /\ gameState = CanonicalDefault
    /\ persisted = CanonicalDefault

\* C17: a tick whose autosave is rejected is the tick it is when the autosave
\* is fulfilled: the state in memory after it is the state the same tick
\* (the same draws) produces, play time has advanced, the level-up check has
\* run, and the call returns normally; only the blob persisted stays as it
\* was.
C17_FailedSaveLeavesTickIntact ==
    [][ ( lastOp'.op = "tick" /\ lastOp'.arg.save = "rejected" ) =>
          /\ gameState' =
                updateGameState(gameState, lastOp'.arg.r1, lastOp'.arg.r2)
          /\ gameState'.statistics.totalPlayTime =
                gameState.statistics.totalPlayTime + 1
          /\ gameState'.resources.linesOfCode > gameState.resources.linesOfCode
          /\ gameState'.character.experience
                < gameState'.character.experienceToNext
          /\ lastOp'.ret = "void"
          /\ persisted' = persisted ]_vars

\* the tick that defeated the encounter of the legacy save and levelled up
\* had its autosave rejected: level 2 in memory, level 1 persisted
C17_Witness ==
    /\ lastOp.op = "tick"
    /\ lastOp.arg.save = "rejected"
    /\ gameState.statistics.totalBugsDefeated = 1
    /\ gameState.character.level = 2
    /\ persisted # Absent
    /\ persisted.character.level = 1

\* C18 as stated: after a load, every field of the current schema that the
\* persisted blob lacks holds its value of the default state.
C18_MissingFieldsTakeDefaults ==
    lastOp.op = "load" =>
      \A k \in DOMAIN CanonicalDefault :
        k \notin DOMAIN persisted =>
          /\ k \in DOMAIN gameState
          /\ gameState[k] = CanonicalDefault[k]

\* C19: when nothing is persisted under the save key, loadGameState returns
\* the default state: level 1, experience 0 of 100, no currency, stats 1, 5
\* and 3, costs 50, 30 and 40, four equipment slots at level 1 and not
\* owned, all statistics 0, no encounter, autoSave and showNotifications on.
C19_NoBlobLoadsDefault ==
    ( lastOp.op = "load" /\ persisted = Absent ) =>
      /\ gameState = CanonicalDefault
      /\ gameState.character.level = 1
      /\ gameState.stats.algorithm = 5
      /\ gameState.upgradeCosts.iteration = 40
      /\ \A slot \in DOMAIN gameState.equipment :
           gameState.equipment[slot] = [level |-> 1, owned |-> FALSE]
      /\ Cardinality(DOMAIN gameState.equipment) = 4
      /\ ~Active(gameState)

\* the first activation, with nothing stored, has loaded the default state
C19_Witness ==
    /\ lastOp = Op("load", "", "void")
    /\ persisted = Absent
    /\ gameState.upgradeCosts =
         [handSpeed |-> 50, algorithm |-> 30, iteration |-> 40]
    /\ gameState.settings.autoSave

\* floor(n * 0.1) of an integer n, as the largest integer q with 10q <= n
FloorTenth(n) == CHOOSE q \in 0..n : 10 * q <= n /\ n < 10 * (q + 1)

Archetypes ==
    {"NullPointerException", "MemoryLeak", "InfiniteLoop", "SyntaxError",
     "RuntimeError"}

\* floor(n / 2) and floor(n * 0.2) of an integer n
FloorHalf(n) == CHOOSE q \in 0..n : 2 * q <= n /\ n < 2 * (q + 1)
FloorFifth(n) == CHOOSE q \in 0..n : 5 * q <= n /\ n < 5 * (q + 1)

\* the tick ends with an encounter that it spawned
SpawnedInTick ==
    /\ lastOp'.op = "tick"
    /\ Active(gameState')
    /\ \/ ~Active(gameState)
       \/ gameState'.statistics.totalBugsDefeated
             > gameState.statistics.totalBugsDefeated

\* C21: an encounter spawned by a tick has the values of the level L the
\* character has when the tick starts (the spawn comes before the level-up
\* check): health = maxHealth = 10 + 5L, algorithm = 5 + 2L, iteration =
\* floor((5 + 2L) * 0.2), and with b = max(1, floor(L / 2)) the reward is
\* 10b lines of code, b fragments and 5b experience; its type is one of the
\* five archetypes, and every draw picks one of them.
C21_SpawnedEncounterValues ==
    [][ SpawnedInTick =>
          LET L   == gameState.character.level
              b   == IF FloorHalf(L) >= 1 THEN FloorHalf(L) ELSE 1
              bug == gameState'.battle.currentBug
          IN  /\ bug.health = 10 + 5 * L
              /\ bug.maxHealth = 10 + 5 * L
              /\ bug.algorithm = 5 + 2 * L
              /\ bug.iteration = FloorFifth(5 + 2 * L)
              /\ bug.reward = [ linesOfCode |-> 10 * b, bugFragments |-> b,
                                experience |-> 5 * b ]
              /\ bug.type \in Archetypes
              /\ DOMAIN bug = {"name", "type", "health", "maxHealth",
                               "algorithm", "iteration", "reward"}
              /\ { spawnRandomBug(gameState, r).battle.currentBug.type :
                     r \in 0..99 } = Archetypes ]_vars

\* the first tick of a game at level 4 with experience past the threshold
\* spawned an encounter with the values of level 4 and then levelled up to 5
C21_Witness ==
    /\ lastOp.op = "tick"
    /\ gameState.statistics.totalPlayTime = 1
    /\ gameState.character.level = 5
    /\ gameState.character.experience = 1
    /\ Active(gameState)
    /\ gameState.battle.currentBug.maxHealth = 30
    /\ gameState.battle.currentBug.algorithm = 13
    /\ gameState.battle.currentBug.iteration = 2
    /\ gameState.battle.currentBug.reward =
         [linesOfCode |-> 20, bugFragments |-> 2, experience |-> 10]

\* C22: checkLevelUp loops while experience >= experienceToNext. When it has
\* raised the level by k, handSpeed has risen by k, algorithm by 2k and
\* iteration by k; each level took away the threshold in force when it was
\* gained (the experience left is what there was less the thresholds of the
\* levels passed), and experienceToNext = 100 + (level - 1) * 50 afterwards,
\* as in every state.
C22_LevelUpLoop ==
    /\ gameState.character.experienceToNext =
         100 + (gameState.character.level - 1) * 50
    /\ lastOp.op = "checkLevelUp" =>
         LET before == StateAtLevel(lastOp.arg.level, lastOp.arg.experience)
             k      == gameState.character.level - lastOp.arg.level
         IN  /\ k >= 0
             /\ gameState.stats.handSpeed = before.stats.handSpeed + k
             /\ gameState.stats.algorithm = before.stats.algorithm + 2 * k
             /\ gameState.stats.iteration = before.stats.iteration + k
             /\ gameState.character.experience =
                  lastOp.arg.experience + lastOp.arg.grant
                    - (ThresholdSum(gameState.character.level)
                         - ThresholdSum(lastOp.arg.level))
             /\ gameState.character.experience >= 0
             /\ gameState.character.experience
                  < gameState.character.experienceToNext
             /\ gameState = [before EXCEPT
                    !.character = gameState.character,
                    !.stats = gameState.stats]

\* 95 + 400 experience at level 1: three levels, 495 - 100 - 150 - 200 = 45
C22_Witness ==
    /\ lastOp.op = "checkLevelUp"
    /\ lastOp.arg = [level |-> 1, experience |-> 95, grant |-> 400]
    /\ gameState.character.level = 4
    /\ gameState.character.experience = 45
    /\ gameState.character.experienceToNext = 250
    /\ gameState.stats = [handSpeed |-> 4, algorithm |-> 11, iteration |-> 6]

InteractionTypes == {"keystroke", "fileOpen", "fileSave"}

\* the statistics counter of an interaction type
CounterOf(type) ==
    CASE type = "keystroke" -> "keystrokes"
      [] type = "fileOpen"  -> "filesOpened"
      [] type = "fileSave"  -> "filesSaved"

\* t is s but for lines of code, experience and the counter of the type,
\* which is n higher
OnlyCounted(s, t, type, n) ==
    /\ t.statistics[CounterOf(type)] = s.statistics[CounterOf(type)] + n
    /\ t = [s EXCEPT
              !.statistics[CounterOf(type)] = @ + n,
              !.resources.linesOfCode = t.resources.linesOfCode,
              !.character.experience = t.character.experience]

KeystrokeBonus(gs) ==
    IF gs.equipment.keyboard.owned
      THEN Scale + 2 * gs.equipment.keyboard.level
      ELSE Scale

C26_LevelUpWaitsForTick ==
    [][ /\ lastOp'.op = "fileSave" =>
             /\ gameState'.character.experience =
                  gameState.character.experience + 2
             /\ gameState'.character.level = gameState.character.level
             /\ gameState'.character.experienceToNext =
                  gameState.character.experienceToNext
             /\ gameState'.stats = gameState.stats
        /\ ( /\ lastOp'.op = "tick"
             /\ gameState.character.experience
                  >= gameState.character.experienceToNext ) =>
             /\ LevelsGained >= 1
             /\ gameState'.stats =
                  [ handSpeed |-> gameState.stats.handSpeed + LevelsGained,
                    algorithm |-> gameState.stats.algorithm + 2 * LevelsGained,
                    iteration |-> gameState.stats.iteration + LevelsGained ]
             /\ gameState'.character.experience
                  < gameState'.character.experienceToNext ]_vars

\* the fiftieth file save brought experience to the threshold of 100 at
\* level 1, and the first tick levelled up to 2 with no experience left
C26_Witness ==
    /\ lastOp.op = "tick"
    /\ gameState.statistics.filesSaved = 50
    /\ gameState.statistics.totalPlayTime = 1
    /\ gameState.statistics.totalBugsDefeated = 0
    /\ gameState.character.level = 2
    /\ gameState.character.experience = 0
    /\ gameState.stats = [handSpeed |-> 2, algorithm |-> 7, iteration |-> 4]

\* C27: bugFragments changes only in a tick that defeats an encounter, which
\* raises it; buyUpgrade, keystroke, fileOpen, fileSave and the ticks that
\* defeat nothing leave it as it is, and only a reset lowers it.
C27_FragmentsOnlyFromDefeats ==
    [][ /\ lastOp'.op \in {"buyUpgrade", "keystroke", "fileOpen", "fileSave"} =>
             gameState'.resources.bugFragments =
               gameState.resources.bugFragments
        /\ lastOp'.op = "tick" =>
             IF gameState'.statistics.totalBugsDefeated
                  = gameState.statistics.totalBugsDefeated
               THEN gameState'.resources.bugFragments =
                      gameState.resources.bugFragments
               ELSE /\ Active(gameState)
                    /\ gameState'.resources.bugFragments
                         > gameState.resources.bugFragments
        /\ gameState'.resources.bugFragments
             < gameState.resources.bugFragments => lastOp'.op = "reset" ]_vars

\* a purchase made with fragments won from a defeated encounter in hand
C27_Witness ==
    /\ lastOp.op = "buyUpgrade"
    /\ lastOp.ret = "true"
    /\ gameState.statistics.totalBugsDefeated >= 1
    /\ gameState.resources.bugFragments >= 1

StatKeys == {"handSpeed", "algorithm", "iteration"}

\* level, the three stats and the six statistics counters of t are at least
\* those of s
NotLowered(s, t) ==
    /\ t.character.level >= s.character.level
    /\ \A k \in StatKeys : t.stats[k] >= s.stats[k]
    /\ \A k \in StatisticsKeys : t.statistics[k] >= s.statistics[k]

\* C28: a tick, a buyUpgrade call and an interaction never lower the level,
\* handSpeed, algorithm, iteration or any of the six statistics counters;
\* a step that lowers one of them is a reset.
C28_NeverLowered ==
    [][ /\ lastOp'.op \in {"tick", "buyUpgrade", "keystroke", "fileOpen",
                           "fileSave"} =>
             NotLowered(gameState, gameState')
        /\ ~NotLowered(gameState, gameState') => lastOp'.op = "reset" ]_vars

\* a purchase at level 3 that spent lines of code: the balance is below the
\* lifetime total, which the purchase did not lower
C28_Witness ==
    /\ lastOp = Op("buyUpgrade", "algorithm", "true")
    /\ gameState.character.level = 3
    /\ gameState.stats.algorithm >= 11
    /\ gameState.statistics.totalLinesGenerated
         > gameState.resources.linesOfCode

\* C29 as stated: no tick, buyUpgrade call, interaction or reset changes the
\* settings: autoSave and showNotifications keep the values they were loaded
\* with.
C29_SettingsNeverWritten ==
    [][ gameState'.settings = gameState.settings ]_vars

\* C29 amended: no tick, buyUpgrade call or interaction changes the settings;
\* a reset replaces them with those of the default state, autoSave and
\* showNotifications both on, whatever they were loaded with.
C29_SettingsWrittenByResetOnly ==
    [][ IF lastOp'.op = "reset"
          THEN gameState'.settings =
                 [autoSave |-> TRUE, showNotifications |-> TRUE]
          ELSE gameState'.settings = gameState.settings ]_vars

\* a reset of a game loaded with autoSave off: autoSave is on after it
C29_Witness ==
    /\ lastOp.op = "reset"
    /\ lastOp.arg = "manual"
    /\ gameState.settings.autoSave
    /\ gameState.settings.showNotifications

\* the deprecated keys of a block
DeprecatedOf(block) ==
    IF block = "currentBug" THEN DeprecatedBugKeys ELSE DeprecatedStatKeys

\* the keys of the block b of a blob that no rename reads or writes
Untouched(b, block) ==
    { k \in DOMAIN b \ DeprecatedOf(block) :
        \A d \in DOMAIN b \cap DeprecatedOf(block) : CurrentName[d] # k }

\* g holds the keys of b but for the deprecated ones, and the current name
\* of each deprecated key that b holds
KeysRenamed(b, g, block) ==
    DOMAIN g = (DOMAIN b \ DeprecatedOf(block))
                 \cup { CurrentName[d] : d \in DOMAIN b \cap DeprecatedOf(block) }

\* C30 as stated: a load returns the blob with every field other than the
\* eight deprecated keys unchanged, the unknown fields and the current-name
\* fields handSpeed, algorithm and iteration that the blob holds among them.
C30_AllOtherFieldsPassedThrough ==
    ( lastOp.op = "load" /\ persisted # Absent ) =>
      /\ DOMAIN gameState = DOMAIN persisted
      /\ \A f \in DOMAIN persisted \ {"stats", "upgradeCosts", "battle"} :
           gameState[f] = persisted[f]
      /\ \A f \in DOMAIN persisted \cap {"stats", "upgradeCosts"} :
           \A k \in DOMAIN persisted[f] \ DeprecatedStatKeys :
             k \in DOMAIN gameState[f] /\ gameState[f][k] = persisted[f][k]
      /\ HasBug(persisted) =>
           \A k \in DOMAIN persisted.battle.currentBug \ DeprecatedBugKeys :
             /\ k \in DOMAIN gameState.battle.currentBug
             /\ gameState.battle.currentBug[k] = persisted.battle.currentBug[k]

\* C30 amended: a load returns a state for every blob; every top-level field
\* other than stats, upgradeCosts and battle is the blob's, and so is every
\* field of battle other than a non-null currentBug; in stats, upgradeCosts
\* and currentBug the deprecated keys are gone, their current names are
\* there, and every other key, known or not, has the blob's value, except
\* that the current name of a deprecated key the blob holds has the
\* deprecated key's value, also when the blob held a value under it.
C30_FieldsPassedThroughButRenamed ==
    ( lastOp.op = "load" /\ persisted # Absent ) =>
      /\ DOMAIN gameState = DOMAIN persisted
      /\ \A f \in DOMAIN persisted \ {"stats", "upgradeCosts", "battle"} :
           gameState[f] = persisted[f]
      /\ \A f \in DOMAIN persisted \cap {"stats", "upgradeCosts"} :
           /\ KeysRenamed(persisted[f], gameState[f], f)
           /\ \A k \in Untouched(persisted[f], f) :
                gameState[f][k] = persisted[f][k]
           /\ \A d \in DOMAIN persisted[f] \cap DeprecatedStatKeys :
                gameState[f][CurrentName[d]] = persisted[f][d]
      /\ "battle" \in DOMAIN persisted =>
           /\ DOMAIN gameState.battle = DOMAIN persisted.battle
           /\ \A k \in DOMAIN persisted.battle \ {"currentBug"} :
                gameState.battle[k] = persisted.battle[k]
           /\ IF HasBug(persisted)
                THEN LET b == persisted.battle.currentBug
                         g == gameState.battle.currentBug
                     IN  /\ KeysRenamed(b, g, "currentBug")
                         /\ \A k \in Untouched(b, "currentBug") : g[k] = b[k]
                         /\ \A d \in DOMAIN b \cap DeprecatedBugKeys :
                              g[CurrentName[d]] = b[d]
                ELSE gameState.battle = persisted.battle

\* a blob with fields of a later version, deprecated keys and the current
\* keys beside them has been loaded: the unknown fields are there, and
\* handSpeed holds what was saved as computingPower, not what was saved as
\* handSpeed
C30_Witness ==
    /\ lastOp = Op("load", "", "void")
    /\ persisted # Absent
    /\ "achievements" \in DOMAIN persisted
    /\ gameState.achievements = <<"firstBlood">>
    /\ gameState.stats.luck = 7
    /\ gameState.upgradeCosts.luck = 70
    /\ gameState.battle.currentBug.boss
    /\ persisted.stats.handSpeed = 1
    /\ persisted.stats.computingPower = 11
    /\ gameState.stats.handSpeed = 11

C32_TickSavesIffAutoSave ==
    [][ lastOp'.op = "tick" =>
          /\ gameState'.settings = gameState.settings
          /\ IF gameState.settings.autoSave
               THEN /\ lastOp'.arg.save \in {"fulfilled", "rejected"}
                    /\ lastOp'.arg.save = "fulfilled" =>
                         persisted' = gameState'
               ELSE /\ lastOp'.arg.save = "none"
                    /\ persisted' = persisted ]_vars

\* two ticks of a game loaded with autoSave off: the state in memory has
\* moved on to level 3, and the blob persisted is still the one loaded
C32_Witness ==
    /\ lastOp.op = "tick"
    /\ ~gameState.settings.autoSave
    /\ gameState.statistics.totalPlayTime = 2
    /\ gameState.character.level = 3
    /\ persisted = VeteranBlob
    /\ persisted.character.level = 1

\* C33: an encounter takes one damage step per tick and none in the tick
\* that spawned it: an encounter that a tick spawned has health = maxHealth
\* at the end of that tick; a tick that starts with an active encounter
\* either defeats it or leaves it with its health lowered by the damage of
\* one step; and nothing but a tick touches the battle slot.
C33_OneDamageStepPerTick ==
    [][ /\ SpawnedInTick =>
             gameState'.battle.currentBug.health =
               gameState'.battle.currentBug.maxHealth
        /\ ( lastOp'.op = "tick" /\ Active(gameState) ) =>
             IF gameState.battle.currentBug.health > Damage(gameState)
               THEN /\ gameState'.battle =
                         [gameState.battle EXCEPT
                            !.currentBug.health = @ - Damage(gameState)]
                    /\ gameState'.statistics.totalBugsDefeated =
                         gameState.statistics.totalBugsDefeated
               ELSE gameState'.statistics.totalBugsDefeated =
                      gameState.statistics.totalBugsDefeated + 1
        /\ lastOp'.op # "tick" => gameState'.battle = gameState.battle
      ]_vars

\* the tick after the one that spawned the first encounter: one damage step
\* is missing from its health
C33_Witness ==
    /\ lastOp.op = "tick"
    /\ gameState.statistics.totalPlayTime = 2
    /\ gameState.statistics.totalBugsDefeated = 0
    /\ Active(gameState)
    /\ gameState.battle.currentBug.health + Damage(gameState)
         = gameState.battle.currentBug.maxHealth

\* C34: every active encounter is eventually defeated. A tick that starts
\* with an active encounter lowers its health by at least 1 or defeats it,
\* an active encounter has 1 <= health <= maxHealth between ticks (so one
\* spawned with health H is gone after at most H ticks), and with the game
\* loop running the encounter that is active after n defeats leads to the
\* defeat n + 1.
C34_EncounterEventuallyDefeated ==
    /\ [][ ( lastOp'.op = "tick" /\ Active(gameState) ) =>
             \/ gameState'.statistics.totalBugsDefeated =
                  gameState.statistics.totalBugsDefeated + 1
             \/ /\ Active(gameState')
                /\ gameState'.battle.currentBug.maxHealth =
                     gameState.battle.currentBug.maxHealth
                /\ gameState'.battle.currentBug.health <=
                     gameState.battle.currentBug.health - 1 ]_vars
    /\ []( Active(gameState) =>
             /\ gameState.battle.currentBug.health >= 1
             /\ gameState.battle.currentBug.health <=
                  gameState.battle.currentBug.maxHealth
             /\ gameState.statistics.totalPlayTime +
                  gameState.battle.currentBug.health < Horizon )
    /\ \A n \in 0..(MaxSpawnTicks + 1) :
         ( Active(gameState) /\ gameState.statistics.totalBugsDefeated = n )
           ~> ( gameState.statistics.totalBugsDefeated > n )

\* an encounter spawned by a tick has been defeated by a later one: two
\* defeats, the second of an encounter of the run, and the slot is empty
C34_Witness ==
    /\ lastOp.op = "tick"
    /\ gameState.statistics.totalBugsDefeated = 2
    /\ ~Active(gameState)
    /\ gameState.statistics.totalPlayTime > MaxSpawnTicks

\* C35: the reward of a keystroke is scaled by the file-type multiplier of
\* the edited document: a document change raises linesOfCode by a number of
\* bonuses, at most one per character added, each the keystroke bonus times
\* the multiplier of the document's extension (1.5 for .ts, 0.8 for .md,
\* 0.5 for .txt).
C35_KeystrokeRewardScaledByFileType ==
    [][ lastOp'.op = "textChange" =>
          \E bonuses \in 0..(gameState'.statistics.keystrokes
                               - gameState.statistics.keystrokes) :
            ( gameState'.resources.linesOfCode
                - gameState.resources.linesOfCode ) * 10
              = bonuses * KeystrokeBonus(gameState)
                  * lastOp'.arg.data.multiplier ]_vars

\* the sum over the content changes of max(0, inserted - replaced)
RECURSIVE NetInserted(_)
NetInserted(contentChanges) ==
    IF contentChanges = <<>>
      THEN 0
      ELSE ( IF Head(contentChanges).text > Head(contentChanges).rangeLength
               THEN Head(contentChanges).text - Head(contentChanges).rangeLength
               ELSE 0 )
           + NetInserted(Tail(contentChanges))

\* C36: one document-change event raises statistics.keystrokes by the sum
\* over its content changes of max(0, length of the inserted text - length
\* of the replaced range); a change that only deletes adds nothing to the
\* sum and takes nothing from it, and an event without content changes
\* leaves the whole state as it is.
C36_KeystrokesAreNetInsertions ==
    [][ lastOp'.op = "textChange" =>
          LET changes == lastOp'.arg.event.contentChanges
          IN  /\ gameState'.statistics.keystrokes
                   = gameState.statistics.keystrokes + NetInserted(changes)
              /\ ( \A i \in 1..Len(changes) : changes[i].text = 0 ) =>
                   gameState' = gameState
              /\ gameState'.statistics
                   = [gameState.statistics EXCEPT
                        !.keystrokes = @ + NetInserted(changes)] ]_vars

\* an event that replaces one character by two and deletes another: net 0
\* for the document, one keystroke for the game
C36_Witness ==
    /\ lastOp.op = "textChange"
    /\ lastOp.arg.event.contentChanges
         = << [text |-> 2, rangeLength |-> 1], [text |-> 0, rangeLength |-> 1] >>
    /\ persisted = Absent
    /\ gameState.statistics.keystrokes = 1
    /\ gameState.resources.linesOfCode = Scale

\* C37: deactivation stops the game loop and then saves: at the save the
\* interval is cleared, the blob persisted is the state in memory whatever
\* settings.autoSave says, and from then on no step changes the state or
\* the blob.
C37_DeactivateStopsAndSaves ==
    /\ [][ /\ lastOp'.op = "save" =>
                /\ gameLoop' = "cleared"
                /\ gameState' = gameState
                /\ persisted' = gameState
           /\ gameLoop = "cleared" =>
                /\ gameState' = gameState
                /\ persisted' = persisted
                /\ gameLoop' = "cleared" ]_vars
    /\ []( gameLoop = "cleared" => persisted = gameState )

\* a game loaded with autoSave off, two ticks and a level-up later, is
\* deactivated: the loop is cleared and the blob is the state in memory
C37_Witness ==
    /\ gameLoop = "cleared"
    /\ lastOp.op = "save"
    /\ ~gameState.settings.autoSave
    /\ gameState.statistics.totalPlayTime = 2
    /\ gameState.character.level = 3
    /\ persisted = gameState

\* C38: in every state reached from the default state, battle.isInBattle is
\* true exactly when battle.currentBug is not null, and the encounter in the
\* slot has 0 < health <= maxHealth.
C38_BattleSlotConsistent ==
    /\ gameState.battle.isInBattle <=> gameState.battle.currentBug # Null
    /\ gameState.battle.currentBug # Null =>
         /\ gameState.battle.currentBug.health > 0
         /\ gameState.battle.currentBug.health
              <= gameState.battle.currentBug.maxHealth

\* the default game three ticks on, in its first encounter: spawned by the
\* first tick at 15 health and hit twice for 4
C38_Witness ==
    /\ gameState.character.level = 1
    /\ gameState.character.experience = 0
    /\ gameState.statistics.totalBugsDefeated = 0
    /\ gameState.statistics.totalPlayTime = 3
    /\ gameState.battle.isInBattle
    /\ gameState.battle.currentBug.maxHealth = 15
    /\ gameState.battle.currentBug.health = 7

EquipmentSlots == {"keyboard", "ideExtension", "debugger", "coffeeMachine"}

\* C39: no operation but reset changes the level or the owned flag of an
\* equipment slot; so in every state reached from the default state no
\* equipment is owned, a tick produces stats.handSpeed lines exactly, and
\* linesOfCode and totalLinesGenerated are whole numbers of lines.
C39_EquipmentFrameAndIntegerLines ==
    /\ [][ /\ lastOp'.op # "reset" =>
                gameState'.equipment = gameState.equipment
           /\ lastOp'.op = "tick" =>
                gameState'.statistics.totalLinesGenerated
                  = gameState.statistics.totalLinesGenerated
                      + gameState.stats.handSpeed * Scale ]_vars
    /\ []( /\ DOMAIN gameState.equipment = EquipmentSlots
           /\ \A slot \in EquipmentSlots :
                /\ ~gameState.equipment[slot].owned
                /\ gameState.equipment[slot].level = 1
           /\ calculateLocPerSecond(gameState)
                = gameState.stats.handSpeed * Scale
           /\ gameState.resources.linesOfCode % Scale = 0
           /\ gameState.statistics.totalLinesGenerated % Scale = 0 )

\* the first run after five ticks, a defeat, a keystroke and a file save:
\* five lines generated at hand speed 1, and a whole number of lines held
C39_Witness ==
    /\ lastOp.op = "tick"
    /\ gameState.stats.handSpeed = 1
    /\ gameState.statistics.keystrokes = 1
    /\ gameState.statistics.filesSaved = 1
    /\ gameState.statistics.totalBugsDefeated = 1
    /\ gameState.statistics.totalPlayTime = 5
    /\ gameState.statistics.totalLinesGenerated = 5 * Scale
    /\ gameState.resources.linesOfCode > 20 * Scale
    /\ gameState.resources.linesOfCode % Scale = 0
    /\ \A slot \in EquipmentSlots : ~gameState.equipment[slot].owned

\* C40: checkLevelUp is idempotent and conserves the total experience: a
\* second call right after the first changes nothing, and experience + the
\* sum over l from 1 to level - 1 of (100 + (l - 1) * 50) is the same
\* before and after a call.
C40_CheckLevelUpIdempotentConserving ==
    [][ /\ lastOp'.op = "checkLevelUpAgain" => gameState' = gameState
        /\ lastOp'.op \in {"checkLevelUp", "checkLevelUpAgain"} =>
             TotalExperience(gameState') = TotalExperience(gameState) ]_vars

\* 400 experience granted at level 1: two level-ups in the first call,
\* 150 experience over, and the second call has left it so
C40_Witness ==
    /\ lastOp.op = "checkLevelUpAgain"
    /\ lastOp.arg.level = 1
    /\ lastOp.arg.experience = 0
    /\ lastOp.arg.grant = 400
    /\ gameState.character.level = 3
    /\ gameState.character.experience = 150
    /\ gameState.character.experienceToNext = 200

====
